---- MODULE Spec2Model ----
(***************************************************************************)
(* Model of the pure-Python MD5 engine (MD5Type) embedded in               *)
(* labs/lab-2/setup_user_api_key.py.                                       *)
(*                                                                         *)
(* Python integers are unbounded, TLC integers are not, so a Python int is *)
(* modelled as a two's-complement little-endian sequence of limbs in base  *)
(* 65536 whose last element is the sign limb (0 for a non-negative number, *)
(* 65535 for a negative one) and stands for an infinite sign extension.    *)
(* 0 is <<0>>, -1 is <<65535>>, 5 is <<5, 0>>, 2^32 is <<0, 0, 1, 0>>.      *)
(* Python lists are mutable objects: the model keeps them in a heap        *)
(* (address -> contents) so that aliasing and in-place mutation behave as  *)
(* in the source.                                                          *)
(***************************************************************************)
EXTENDS Integers, Sequences, FiniteSets, TLC

Max(a, b) == IF a >= b THEN a ELSE b

Min(a, b) == IF a <= b THEN a ELSE b

(* ---------------- Python int arithmetic ---------------- *)

RECURSIVE AndBits(_, _, _)
AndBits(a, b, n) ==
    IF n = 0 THEN 0
    ELSE (a % 2) * (b % 2) + 2 * AndBits(a \div 2, b \div 2, n - 1)

\* a & b for two bytes a, b at index 256 * a + b + 1, tabulated once
\* (the concatenation makes TLC store the table as a tuple).
AndTab == <<>> \o [k \in 1..65536 |-> AndBits((k - 1) \div 256, (k - 1) % 256, 8)]

\* a & b, a | b, a ^ b for two limbs (a limb is two bytes).
LimbAnd(a, b) ==
    AndTab[(a \div 256) * 256 + (b \div 256) + 1] * 256
    + AndTab[(a % 256) * 256 + (b % 256) + 1]

LimbOr(a, b) == a + b - LimbAnd(a, b)

LimbXor(a, b) == a + b - 2 * LimbAnd(a, b)

SignOf(x) == x[Len(x)]

Limb(x, i) == IF i < Len(x) THEN x[i] ELSE x[Len(x)]

\* Canonical form: no limb that only repeats the sign limb.
RECURSIVE Norm(_)
Norm(x) ==
    IF Len(x) >= 2 /\ x[Len(x) - 1] = x[Len(x)]
    THEN Norm(SubSeq(x, 1, Len(x) - 1))
    ELSE x

RECURSIVE FromNat(_)
FromNat(n) == IF n = 0 THEN <<0>> ELSE <<n % 65536>> \o FromNat(n \div 65536)

\* Value of a small non-negative Python int as a TLC integer.
RECURSIVE ToNat(_)
ToNat(x) == IF Len(x) = 1 THEN 0 ELSE x[1] + 65536 * ToNat(Tail(x))

\* The 32-bit literal 0xHHHHLLLL.
Word(hi, lo) == Norm(<<lo, hi, 0>>)

RECURSIVE AndLimbs(_, _, _, _)
AndLimbs(x, y, i, n) ==
    IF i > n THEN <<>>
    ELSE <<LimbAnd(Limb(x, i), Limb(y, i))>> \o AndLimbs(x, y, i + 1, n)

PyAnd(x, y) ==
    IF Len(x) >= Len(y) THEN Norm(AndLimbs(x, y, 1, Len(x)))
    ELSE Norm(AndLimbs(x, y, 1, Len(y)))

RECURSIVE OrLimbs(_, _, _, _)
OrLimbs(x, y, i, n) ==
    IF i > n THEN <<>>
    ELSE <<LimbOr(Limb(x, i), Limb(y, i))>> \o OrLimbs(x, y, i + 1, n)

PyOr(x, y) ==
    IF Len(x) >= Len(y) THEN Norm(OrLimbs(x, y, 1, Len(x)))
    ELSE Norm(OrLimbs(x, y, 1, Len(y)))

RECURSIVE XorLimbs(_, _, _, _)
XorLimbs(x, y, i, n) ==
    IF i > n THEN <<>>
    ELSE <<LimbXor(Limb(x, i), Limb(y, i))>> \o XorLimbs(x, y, i + 1, n)

PyXor(x, y) ==
    IF Len(x) >= Len(y) THEN Norm(XorLimbs(x, y, 1, Len(x)))
    ELSE Norm(XorLimbs(x, y, 1, Len(y)))

\* ~x
RECURSIVE PyNot(_)
PyNot(x) == IF x = <<>> THEN <<>> ELSE <<65535 - Head(x)>> \o PyNot(Tail(x))

RECURSIVE AddLimbs(_, _, _, _, _)
AddLimbs(x, y, i, n, c) ==
    IF i > n THEN <<>>
    ELSE LET s == Limb(x, i) + Limb(y, i) + c
         IN  <<s % 65536>> \o AddLimbs(x, y, i + 1, n, s \div 65536)

\* The n limbs d of a sum, with the sign limb they imply.
Signed(d, n) == Norm(d \o <<IF d[n] >= 32768 THEN 65535 ELSE 0>>)

PyAdd(x, y) ==
    IF Len(x) >= Len(y) THEN Signed(AddLimbs(x, y, 1, Len(x), 0), Len(x))
    ELSE Signed(AddLimbs(x, y, 1, Len(y), 0), Len(y))

PyNeg(x) == PyAdd(PyNot(x), <<1, 0>>)

PyLess(x, y) == SignOf(PyAdd(x, PyNeg(y))) = 65535

\* x << r for r < 16: limbs i..n of the result.
RECURSIVE ShlLimbs(_, _, _, _)
ShlLimbs(x, r, i, n) ==
    IF i > n THEN <<>>
    ELSE <<((Limb(x, i) * 2^r) % 65536)
           + (IF i = 1 THEN 0 ELSE Limb(x, i - 1) \div 2^(16 - r))>>
         \o ShlLimbs(x, r, i + 1, n)

RECURSIVE Zeros(_)
Zeros(q) == IF q = 0 THEN <<>> ELSE <<0>> \o Zeros(q - 1)

\* x << n
PyShl(x, n) ==
    IF x = <<0>> THEN x
    ELSE Norm(Zeros(n \div 16) \o ShlLimbs(x, n % 16, 1, Len(x) + 1))

\* (x >> 16*q) >> r for r < 16: limbs i..n of the result.
RECURSIVE ShrLimbs(_, _, _, _, _)
ShrLimbs(x, q, r, i, n) ==
    IF i > n THEN <<>>
    ELSE <<(Limb(x, i + q) \div 2^r)
           + (IF r = 0 THEN 0 ELSE (Limb(x, i + q + 1) * 2^(16 - r)) % 65536)>>
         \o ShrLimbs(x, q, r, i + 1, n)

\* x >> n (floor)
PyShr(x, n) ==
    IF x = <<0>> THEN x
    ELSE Norm(ShrLimbs(x, n \div 16, n % 16, 1, Max(1, Len(x) - n \div 16)))

(* ---------------- module-level constants ---------------- *)

hex_constants == <<
    Word(\hD76A, \hA478), Word(\hE8C7, \hB756), Word(\h2420, \h70DB), Word(\hC1BD, \hCEEE),
    Word(\hF57C, \h0FAF), Word(\h4787, \hC62A), Word(\hA830, \h4613), Word(\hFD46, \h9501),
    Word(\h6980, \h98D8), Word(\h8B44, \hF7AF), Word(\hFFFF, \h5BB1), Word(\h895C, \hD7BE),
    Word(\h6B90, \h1122), Word(\hFD98, \h7193), Word(\hA679, \h438E), Word(\h49B4, \h0821),
    Word(\hF61E, \h2562), Word(\hC040, \hB340), Word(\h265E, \h5A51), Word(\hE9B6, \hC7AA),
    Word(\hD62F, \h105D), Word(\h0244, \h1453), Word(\hD8A1, \hE681), Word(\hE7D3, \hFBC8),
    Word(\h21E1, \hCDE6), Word(\hC337, \h07D6), Word(\hF4D5, \h0D87), Word(\h455A, \h14ED),
    Word(\hA9E3, \hE905), Word(\hFCEF, \hA3F8), Word(\h676F, \h02D9), Word(\h8D2A, \h4C8A),
    Word(\hFFFA, \h3942), Word(\h8771, \hF681), Word(\h6D9D, \h6122), Word(\hFDE5, \h380C),
    Word(\hA4BE, \hEA44), Word(\h4BDE, \hCFA9), Word(\hF6BB, \h4B60), Word(\hBEBF, \hBC70),
    Word(\h289B, \h7EC6), Word(\hEAA1, \h27FA), Word(\hD4EF, \h3085), Word(\h0488, \h1D05),
    Word(\hD9D4, \hD039), Word(\hE6DB, \h99E5), Word(\h1FA2, \h7CF8), Word(\hC4AC, \h5665),
    Word(\hF429, \h2244), Word(\h432A, \hFF97), Word(\hAB94, \h23A7), Word(\hFC93, \hA039),
    Word(\h655B, \h59C3), Word(\h8F0C, \hCC92), Word(\hFFEF, \hF47D), Word(\h8584, \h5DD1),
    Word(\h6FA8, \h7E4F), Word(\hFE2C, \hE6E0), Word(\hA301, \h4314), Word(\h4E08, \h11A1),
    Word(\hF753, \h7E82), Word(\hBD3A, \hF235), Word(\h2AD7, \hD2BB), Word(\hEB86, \hD391)
>>

long_zero == <<0>>

ffffffffL == Word(\hFFFF, \hFFFF)

x3FL == Word(0, \h3F)

constantA == Word(\h6745, \h2301)

constantB == Word(\hEFCD, \hAB89)

constantC == Word(\h98BA, \hDCFE)

constantD == Word(\h1032, \h5476)

(* ---------------- bit-manipulation helpers ---------------- *)

\* _bytelist2long: every 4 list elements become one int, little-endian.
\* List elements are byte values; the source takes ord() of str elements.
bytelist2long(list) ==
    LET imax == Len(list) \div 4
    IN  [i \in 1..imax |->
            LET j == 4 * (i - 1) + 1
                b0 == FromNat(list[j])
                b1 == PyShl(FromNat(list[j + 1]), 8)
                b2 == PyShl(FromNat(list[j + 2]), 16)
                b3 == PyShl(FromNat(list[j + 3]), 24)
            IN  PyOr(PyOr(PyOr(b0, b1), b2), b3)]

\* "return x << n": the bits shifted out at the top are lost.
rotateLeft_noWrap(x, n) == PyShl(x, n)

rotateLeft(x, n) == PyOr(PyShl(x, n), PyShr(x, 32 - n))

F(x, y, z) == PyOr(PyAnd(x, y), PyAnd(PyNot(x), z))

G(x, y, z) == PyOr(PyAnd(x, z), PyAnd(y, PyNot(z)))

H(x, y, z) == PyXor(PyXor(x, y), z)

I(x, y, z) == PyXor(y, PyOr(x, PyNot(z)))

Apply(func, x, y, z) ==
    CASE func = "F" -> F(x, y, z)
      [] func = "G" -> G(x, y, z)
      [] func = "H" -> H(x, y, z)
      [] func = "I" -> I(x, y, z)

XX(func, a, b, c, d, x, s, ac) ==
    LET res1 == PyAdd(PyAdd(long_zero, a), Apply(func, b, c, d))
        res2 == PyAdd(res1, x)
        res3 == PyAdd(res2, ac)
        res4 == PyAnd(res3, ffffffffL)
        res5 == rotateLeft(res4, s)
        res6 == PyAnd(res5, ffffffffL)
        res7 == PyAdd(res6, b)
    IN  PyAnd(res7, ffffffffL)

\* The 64 XX calls of _transform, in source order:
\* <<assigned variable, function, the four register arguments,
\*   index into inp, shift, index into hex_constants>>.
Steps == <<
    <<"a", "F", <<"a","b","c","d">>, 0, 7, 0>>,
    <<"d", "F", <<"d","a","b","c">>, 1, 12, 1>>,
    <<"c", "F", <<"c","d","a","b">>, 2, 17, 2>>,
    <<"b", "F", <<"b","c","d","a">>, 3, 22, 3>>,
    <<"a", "F", <<"a","b","c","d">>, 4, 7, 4>>,
    <<"d", "F", <<"d","a","b","c">>, 5, 12, 5>>,
    <<"c", "F", <<"c","d","a","b">>, 6, 17, 6>>,
    <<"b", "F", <<"b","c","d","a">>, 7, 22, 7>>,
    <<"a", "F", <<"a","b","c","d">>, 8, 7, 8>>,
    <<"d", "F", <<"d","a","b","c">>, 9, 12, 9>>,
    <<"c", "F", <<"c","d","a","b">>, 10, 17, 10>>,
    <<"b", "F", <<"b","c","d","a">>, 11, 22, 11>>,
    <<"a", "F", <<"a","b","c","d">>, 12, 7, 12>>,
    <<"d", "F", <<"d","a","b","c">>, 13, 12, 13>>,
    <<"c", "F", <<"c","d","a","b">>, 14, 17, 14>>,
    <<"b", "F", <<"b","c","d","a">>, 15, 22, 15>>,
    <<"a", "G", <<"a","b","c","d">>, 1, 5, 16>>,
    <<"d", "G", <<"d","a","b","c">>, 6, 9, 17>>,
    <<"c", "G", <<"c","d","a","b">>, 11, 14, 18>>,
    <<"b", "G", <<"b","c","d","a">>, 0, 20, 19>>,
    <<"a", "G", <<"a","b","c","d">>, 5, 5, 20>>,
    <<"d", "G", <<"d","a","b","c">>, 10, 9, 21>>,
    <<"c", "G", <<"c","d","a","b">>, 15, 14, 22>>,
    <<"b", "G", <<"b","c","d","a">>, 4, 20, 23>>,
    <<"a", "G", <<"a","b","c","d">>, 9, 5, 24>>,
    <<"d", "G", <<"d","a","b","c">>, 14, 9, 25>>,
    <<"c", "G", <<"c","d","a","b">>, 3, 14, 26>>,
    <<"b", "G", <<"b","c","d","a">>, 8, 20, 27>>,
    <<"a", "G", <<"a","b","c","d">>, 13, 5, 28>>,
    <<"d", "G", <<"d","a","b","c">>, 2, 9, 29>>,
    <<"c", "G", <<"c","d","a","b">>, 7, 14, 30>>,
    <<"b", "G", <<"b","c","d","a">>, 12, 20, 31>>,
    <<"a", "H", <<"a","b","c","d">>, 5, 4, 32>>,
    <<"d", "H", <<"d","a","b","c">>, 8, 11, 33>>,
    <<"c", "H", <<"c","d","a","b">>, 11, 16, 34>>,
    <<"b", "H", <<"b","c","d","a">>, 14, 23, 35>>,
    <<"a", "H", <<"a","b","c","d">>, 1, 4, 36>>,
    <<"d", "H", <<"d","a","b","c">>, 4, 11, 37>>,
    <<"c", "H", <<"c","d","a","b">>, 7, 16, 38>>,
    <<"b", "H", <<"b","c","d","a">>, 10, 23, 39>>,
    <<"a", "H", <<"a","b","c","d">>, 13, 4, 40>>,
    <<"d", "H", <<"d","a","b","c">>, 0, 11, 41>>,
    <<"c", "H", <<"c","d","a","b">>, 3, 16, 42>>,
    <<"b", "H", <<"b","c","d","a">>, 6, 23, 43>>,
    <<"a", "H", <<"a","b","c","d">>, 9, 4, 44>>,
    <<"d", "H", <<"d","a","b","c">>, 12, 11, 45>>,
    <<"c", "H", <<"c","d","a","b">>, 15, 16, 46>>,
    <<"b", "H", <<"b","c","d","a">>, 2, 23, 47>>,
    <<"a", "I", <<"a","b","c","d">>, 0, 6, 48>>,
    <<"d", "I", <<"d","a","b","c">>, 7, 10, 49>>,
    <<"c", "I", <<"c","d","a","b">>, 14, 15, 50>>,
    <<"b", "I", <<"b","c","d","a">>, 5, 21, 51>>,
    <<"a", "I", <<"a","b","c","d">>, 12, 6, 52>>,
    <<"d", "I", <<"d","a","b","c">>, 3, 10, 53>>,
    <<"c", "I", <<"c","d","a","b">>, 10, 15, 54>>,
    <<"b", "I", <<"b","c","d","a">>, 1, 21, 55>>,
    <<"a", "I", <<"a","b","c","d">>, 8, 6, 56>>,
    <<"d", "I", <<"d","a","b","c">>, 15, 10, 57>>,
    <<"c", "I", <<"c","d","a","b">>, 6, 15, 58>>,
    <<"b", "I", <<"b","c","d","a">>, 13, 21, 59>>,
    <<"a", "I", <<"a","b","c","d">>, 4, 6, 60>>,
    <<"d", "I", <<"d","a","b","c">>, 11, 10, 61>>,
    <<"c", "I", <<"c","d","a","b">>, 2, 15, 62>>,
    <<"b", "I", <<"b","c","d","a">>, 9, 21, 63>>
>>

\* Every group of 16 calls reading the words of inp in the order 0..15.
Step_wordsInOrder(r, inp, st) ==
    [r EXCEPT ![st[1]] =
        XX(st[2], r[st[3][1]], r[st[3][2]], r[st[3][3]], r[st[3][4]],
           inp[(st[6] % 16) + 1], st[5], hex_constants[st[6] + 1])]

Step(r, inp, st) ==
    [r EXCEPT ![st[1]] =
        XX(st[2], r[st[3][1]], r[st[3][2]], r[st[3][3]], r[st[3][4]],
           inp[st[4] + 1], st[5], hex_constants[st[6] + 1])]

\* The XX calls Steps[lo], ..., Steps[hi] in source order, on the registers
\* r: the first half of them, then the second half.  (The test r # r only
\* makes TLC finish the calls before Steps[lo] first.)
RECURSIVE RunSteps(_, _, _, _)
RunSteps(r, inp, lo, hi) ==
    IF r # r THEN r
    ELSE IF lo = hi THEN Step(r, inp, Steps[lo])
    ELSE RunSteps(RunSteps(r, inp, lo, (lo + hi) \div 2),
                  inp, (lo + hi) \div 2 + 1, hi)

\* The four sums without "& ffffffffL".
AddBack_unmasked(self, r) ==
    [self EXCEPT !.A = PyAdd(self.A, r.a),
                 !.B = PyAdd(self.B, r.b),
                 !.C = PyAdd(self.C, r.c),
                 !.D = PyAdd(self.D, r.d)]

\* A = (A + a) & ffffffffL, and so for B, C, D.
AddBack(self, r) ==
    [self EXCEPT !.A = PyAnd(PyAdd(self.A, r.a), ffffffffL),
                 !.B = PyAnd(PyAdd(self.B, r.b), ffffffffL),
                 !.C = PyAnd(PyAdd(self.C, r.c), ffffffffL),
                 !.D = PyAnd(PyAdd(self.D, r.d), ffffffffL)]

\* _transform on an engine record: the new values of A, B, C, D.
transform(self, inp) ==
    AddBack(self,
            RunSteps([a |-> self.A, b |-> self.B, c |-> self.C, d |-> self.D],
                     inp, 1, 64))

(* ---------------- the heap of Python objects ---------------- *)

\* A world W is [heap, eng, log]: heap maps the address of every list object
\* to its contents, eng maps an engine name to its MD5Type object (the fields
\* count and input hold list addresses), and log is the sequence of blocks
\* handed to _transform so far in the current call.

NewAddr(W) ==
    CHOOSE a \in 1..(Cardinality(DOMAIN W.heap) + 1) : a \notin DOMAIN W.heap

\* A new list object with contents v, at address NewAddr(W).
NewList(W, v) == [W EXCEPT !.heap = (NewAddr(W) :> v) @@ @]

\* [] + list: a new list object with the same contents.
ListCopy(W, a) == [world |-> NewList(W, W.heap[a]), addr |-> NewAddr(W)]

\* list[:n] and list[i:j] with Python's clamping of the bounds.
Take(list, n) == SubSeq(list, 1, Min(n, Len(list)))

Slice(list, i, j) == SubSeq(list, i + 1, Min(j, Len(list)))

\* Addresses renamed in order of first reference (e.input, e.count, c.input,
\* c.count), unreferenced lists dropped: garbage collection, so that two
\* worlds that differ only in addresses are the same state.
Normalise(W) ==
    LET names == IF "c" \in DOMAIN W.eng THEN <<"e", "c">> ELSE <<"e">>
        refs == [k \in 1..(2 * Len(names)) |->
                    IF k % 2 = 1 THEN W.eng[names[(k + 1) \div 2]].input
                    ELSE W.eng[names[k \div 2]].count]
        rank(a) == CHOOSE k \in 1..Len(refs) :
                      refs[k] = a /\ \A j \in 1..(k - 1) : refs[j] # a
        ranks == {rank(refs[k]) : k \in 1..Len(refs)}
    IN  [heap |-> [k \in ranks |-> W.heap[refs[k]]],
         eng  |-> [n \in DOMAIN W.eng |->
                     [W.eng[n] EXCEPT !.input = rank(@), !.count = rank(@)]],
         log  |-> W.log]

(* ---------------- class MD5Type ---------------- *)

\* init() with "self.B = constantC" and "self.C = constantB".
MD5Type_swappedBC(W, self) ==
    LET count == NewAddr(W)
        W1 == NewList(W, <<long_zero, long_zero>>)
        input == NewAddr(W1)
        W2 == NewList(W1, <<>>)
    IN  [W2 EXCEPT !.eng = (self :> [length |-> long_zero,
                                      count |-> count, input |-> input,
                                      A |-> constantA, B |-> constantC,
                                      C |-> constantB, D |-> constantD]) @@ @]

\* MD5Type(): __init__ and the init() it calls.  init() rebinds count and
\* input to new lists, so the lists made by __init__ itself are garbage.
MD5Type(W, self) ==
    LET count == NewAddr(W)
        W1 == NewList(W, <<long_zero, long_zero>>)
        input == NewAddr(W1)
        W2 == NewList(W1, <<>>)
    IN  [W2 EXCEPT !.eng = (self :> [length |-> long_zero,
                                      count |-> count, input |-> input,
                                      A |-> constantA, B |-> constantB,
                                      C |-> constantC, D |-> constantD]) @@ @]

\* self._transform(inp), recorded in the log.
Compress(W, self, inp) ==
    [W EXCEPT !.eng[self] = transform(@, inp), !.log = Append(@, inp)]

\* self._transform(_bytelist2long(self.input))
CompressInput(W, self) ==
    Compress(W, self, bytelist2long(W.heap[W.eng[self].input]))

\* self.input = v: the field is bound to a new list.
SetInput(W, self, v) ==
    LET a == NewAddr(W)
    IN  [NewList(W, v) EXCEPT !.eng[self].input = a]

\* The test of update() with "leninBuf > partLen".
FillsBlock_strict(leninBuf, partLen) == leninBuf > partLen

\* if leninBuf >= partLen: the buffer and the new bytes make a full block.
FillsBlock(leninBuf, partLen) == leninBuf >= partLen

\* The carry test with "self.count[0] <= (leninBuf << 3)".
CountAfter_carryOnEqual(count, leninBuf) ==
    LET bits == PyShl(FromNat(leninBuf), 3)
        c0 == PyAdd(count[1], bits)
        c1 == IF ~PyLess(bits, c0) THEN PyAdd(count[2], <<1, 0>>) ELSE count[2]
    IN  <<c0, PyAdd(c1, PyShr(FromNat(leninBuf), 29))>>

\* The bit counters after leninBuf more bytes.
CountAfter(count, leninBuf) ==
    LET bits == PyShl(FromNat(leninBuf), 3)
        c0 == PyAdd(count[1], bits)
        c1 == IF PyLess(c0, bits) THEN PyAdd(count[2], <<1, 0>>) ELSE count[2]
    IN  <<c0, PyAdd(c1, PyShr(FromNat(leninBuf), 29))>>

\* The index with "self.count[0] >> 2".
IndexOf_shift2(count) == ToNat(PyAnd(PyShr(count[1], 2), x3FL))

\* Number of bytes mod 64.
IndexOf(count) == ToNat(PyAnd(PyShr(count[1], 3), x3FL))

\* The loop with "self.input = list(inBuf)" in its else clause: the bytes
\* already compressed stay in the buffer.
RECURSIVE UpdateLoop_keepAll(_, _, _, _)
UpdateLoop_keepAll(W, self, inBuf, i) ==
    IF i + 63 < Len(inBuf)
    THEN UpdateLoop_keepAll(Compress(W, self, bytelist2long(Slice(inBuf, i, i + 64))),
                            self, inBuf, i + 64)
    ELSE SetInput(W, self, inBuf)

\* The while loop of update(), from position i, and its else clause.
RECURSIVE UpdateLoop(_, _, _, _)
UpdateLoop(W, self, inBuf, i) ==
    IF i + 63 < Len(inBuf)
    THEN UpdateLoop(Compress(W, self, bytelist2long(Slice(inBuf, i, i + 64))),
                    self, inBuf, i + 64)
    ELSE SetInput(W, self, Slice(inBuf, i, Len(inBuf)))

update(W, self, inBuf) ==
    LET leninBuf == Len(inBuf)
        count == W.eng[self].count
        input == W.eng[self].input
        index == IndexOf(W.heap[count])
        \* self.count[0] = ..., self.count[1] = ...: the list is changed in place
        W1 == [W EXCEPT !.heap[count] = CountAfter(@, leninBuf)]
        partLen == 64 - index
    IN  IF FillsBlock(leninBuf, partLen)
        THEN UpdateLoop(
                 CompressInput(
                     \* self.input[index:] = ...: the list is changed in place
                     [W1 EXCEPT !.heap[input] =
                          Take(@, index) \o Take(inBuf, partLen)],
                     self),
                 self, inBuf, partLen)
        ELSE SetInput(W1, self, W1.heap[input] \o inBuf)

\* ['\200'] + ['\000'] * 63, as byte values.
padding == <<128>> \o [k \in 1..63 |-> 0]

\* The test of padLen with "index <= 56".
PadLenOf_offByOne(index) == IF index <= 56 THEN 56 - index ELSE 120 - index

\* if index < 56: padLen = 56 - index, else: padLen = 120 - index
PadLenOf(index) == IF index < 56 THEN 56 - index ELSE 120 - index

\* struct.pack(">I", w): the most significant byte first.
PackI_bigEndian(w) ==
    [k \in 1..4 |-> ToNat(PyAnd(PyShr(w, 8 * (4 - k)), Word(0, \hFF)))]

\* struct.pack("<I", w)
PackI(w) ==
    [k \in 1..4 |-> ToNat(PyAnd(PyShr(w, 8 * (k - 1)), Word(0, \hFF)))]

\* bits built from self.count, the counters after the padding update.
LastBlock_padded(W, self, count) ==
    bytelist2long(Take(W.heap[W.eng[self].input], 56))
    \o W.heap[W.eng[self].count]

\* bits = _bytelist2long(self.input[:56]) + count
LastBlock(W, self, count) ==
    bytelist2long(Take(W.heap[W.eng[self].input], 56)) \o W.heap[count]

\* Restore without "self.count = count".
Restore_keepCount(W, self, s) ==
    [W EXCEPT !.eng[self].A = s.A, !.eng[self].B = s.B,
              !.eng[self].C = s.C, !.eng[self].D = s.D,
              !.eng[self].input = s.input]

\* The six assignments that end digest(); s holds the values saved on entry.
Restore(W, self, s) ==
    [W EXCEPT !.eng[self].A = s.A, !.eng[self].B = s.B,
              !.eng[self].C = s.C, !.eng[self].D = s.D,
              !.eng[self].input = s.input, !.eng[self].count = s.count]

\* The end of digest(), W being the world after the last _transform: the
\* 16 bytes packed from A, B, C, D, and the fields restored from saved.
digestResult(W, self, saved, pad, padded) ==
    [world |-> Restore(W, self, saved),
     ret |-> PackI(W.eng[self].A) \o PackI(W.eng[self].B)
             \o PackI(W.eng[self].C) \o PackI(W.eng[self].D),
     pad |-> pad,
     padded |-> padded]

\* digest() from the last block on, W being the world after the padding
\* update.
digestLast(W, self, saved, pad) ==
    digestResult(Compress(W, self, LastBlock(W, self, saved.count)),
                 self, saved, pad, W.heap[W.eng[self].input])

\* digest() from the padding update on.
digestPad(W, self, saved, pad) ==
    digestLast(update(W, self, pad), self, saved, pad)

\* digest(): the world after the call and the value returned; pad and
\* padded expose the padding slice and the buffer after the padding update.
digest(W, self) ==
    LET input == ListCopy(W, W.eng[self].input)
        count == ListCopy(input.world, W.eng[self].count)
        saved == [A |-> W.eng[self].A, B |-> W.eng[self].B,
                  C |-> W.eng[self].C, D |-> W.eng[self].D,
                  input |-> input.addr, count |-> count.addr]
        index == IndexOf(W.heap[W.eng[self].count])
    IN  digestPad(count.world, self, saved, Take(padding, PadLenOf(index)))

HexChars == <<"0", "1", "2", "3", "4", "5", "6", "7",
              "8", "9", "a", "b", "c", "d", "e", "f">>

\* The two digits of every byte the other way round.
RECURSIVE HexOf_lowNibbleFirst(_)
HexOf_lowNibbleFirst(bytes) ==
    IF bytes = <<>> THEN <<>>
    ELSE <<HexChars[(Head(bytes) % 16) + 1], HexChars[(Head(bytes) \div 16) + 1]>>
         \o HexOf_lowNibbleFirst(Tail(bytes))

\* '%02x' % c for every byte c, joined.
RECURSIVE HexOf(_)
HexOf(bytes) ==
    IF bytes = <<>> THEN <<>>
    ELSE <<HexChars[(Head(bytes) \div 16) + 1], HexChars[(Head(bytes) % 16) + 1]>>
         \o HexOf(Tail(bytes))

hexdigest(W, self) == [digest(W, self) EXCEPT !.ret = HexOf(@)]

\* copy() with "clone.count = self.count" and "clone.input = self.input":
\* the clone refers to the lists of the original.
copy_shared(W, self, clone) ==
    LET W1 == MD5Type(W, clone)
    IN  [W1 EXCEPT !.eng[clone].length = W1.eng[self].length,
                   !.eng[clone].count = W1.eng[self].count,
                   !.eng[clone].input = W1.eng[self].input,
                   !.eng[clone].A = W1.eng[self].A,
                   !.eng[clone].B = W1.eng[self].B,
                   !.eng[clone].C = W1.eng[self].C,
                   !.eng[clone].D = W1.eng[self].D]

\* copy() without "clone.input = [] + self.input".
copy_noInput(W, self, clone) ==
    LET W1 == MD5Type(W, clone)
        count == ListCopy(W1, W1.eng[self].count)
    IN  [count.world EXCEPT !.eng[clone].length = W1.eng[self].length,
                            !.eng[clone].count = count.addr,
                            !.eng[clone].A = W1.eng[self].A,
                            !.eng[clone].B = W1.eng[self].B,
                            !.eng[clone].C = W1.eng[self].C,
                            !.eng[clone].D = W1.eng[self].D]

\* copy(): the new object is named clone.
copy(W, self, clone) ==
    LET W1 == MD5Type(W, clone)
        count == ListCopy(W1, W1.eng[self].count)
        input == ListCopy(count.world, W1.eng[self].input)
    IN  [input.world EXCEPT !.eng[clone].length = W1.eng[self].length,
                            !.eng[clone].count = count.addr,
                            !.eng[clone].input = input.addr,
                            !.eng[clone].A = W1.eng[self].A,
                            !.eng[clone].B = W1.eng[self].B,
                            !.eng[clone].C = W1.eng[self].C,
                            !.eng[clone].D = W1.eng[self].D]

(* ---------------- long messages ---------------- *)

\* update() and digest() on messages too long to enumerate.  The message
\* is leninBuf zero bytes, so it is given by its length; of the engine the
\* model keeps the two counter words as they are, the length of the input
\* list in place of its contents, and the number of blocks compressed in
\* place of A, B, C, D.

SizedNew ==
    [count |-> <<long_zero, long_zero>>, input |-> 0, blocks |-> 0,
     total |-> 0, ncalls |-> 0, dg |-> <<>>]

\* update(inBuf) with len(inBuf) = leninBuf.  The while loop runs
\* (leninBuf - partLen) \div 64 times and leaves the rest in the buffer.
updateSized(s, leninBuf) ==
    LET index == IndexOf(s.count)
        partLen == 64 - index
    IN  IF FillsBlock(leninBuf, partLen)
        THEN [s EXCEPT !.count = CountAfter(@, leninBuf),
                       !.input = (leninBuf - partLen) % 64,
                       !.blocks = @ + 1 + ((leninBuf - partLen) \div 64)]
        ELSE [s EXCEPT !.count = CountAfter(@, leninBuf),
                       !.input = @ + leninBuf]

\* digest(): what determines the value returned for a message of zero
\* bytes, namely the number of blocks compressed, where the 0x80 byte went,
\* and the two length words of the last block as XX uses them (XX adds the
\* word and keeps the low 32 bits of the sum).  The engine is restored.
digestSized(s) ==
    LET index == IndexOf(s.count)
        s3 == updateSized(s, PadLenOf(index))
    IN  [blocks |-> s3.blocks + 1,
         mark |-> index,
         length |-> <<PyAnd(s.count[1], ffffffffL), PyAnd(s.count[2], ffffffffL)>>]

(* ---------------- the state machine ---------------- *)

\* Bounds of the model.
MaxUpdates == 1

MaxCloneUpdates == 1

MaxArg == 64

MaxSizedCalls == 3

\* 2^29 bytes and a little more.
MaxSizedTotal == 536871040

\* Lengths of the arguments of update() in the long-message model:
\* 0, 1, 64, 2^28 and 2^29 bytes.
Sizes == {0, 1, 64, 268435456, 536870912}

\* A test message of n bytes.
Msg(n) == <<>> \o [i \in 1..n |-> (7 * i + 3) % 256]

\* The arguments of update(): nothing, "abc", and a chunk that fills a block
\* and leaves 61 bytes (after it "abc" completes a block exactly, and the
\* same chunk again runs the while loop).
Chunks == {<<>>, <<97, 98, 99>>, Msg(125)}

None == <<"None">>

VARIABLES
    heap,   \* list address -> contents
    eng,    \* engine name ("e", and "c" once e was copied) -> MD5Type object
    calls,  \* engine name -> the arguments of the update() calls behind its
            \* state, in order (a clone starts with those of its original)
    nupd,   \* engine name -> number of update() calls made on it since
            \* it was created
    alone,  \* engine name -> an engine of its own (a world with one engine
            \* "e") that was given the calls of calls[name] and nothing else
    last,   \* the last call: name, engine, return value, blocks compressed
    big,    \* "whole", "parts" -> an engine fed zero bytes by the count
    run     \* a call of XX or of _transform in progress: its arguments, its
            \* position, its local variables and, once it returned, its result

vars == <<heap, eng, calls, nupd, alone, last, big, run>>

small == <<heap, eng, calls, nupd, alone, last, run>>

World == [heap |-> heap, eng |-> eng, log |-> <<>>]

Call(op, self, ret, log, pad, padded) ==
    [op |-> op, self |-> self, ret |-> ret, log |-> log,
     pad |-> pad, padded |-> padded]

\* No call of XX or _transform is followed step by step.
Idle == [op |-> "idle"]

\* One new engine "e", and the two engines of the long-message model.
InitEngines ==
    \E W \in {Normalise(MD5Type([heap |-> <<>>, eng |-> <<>>, log |-> <<>>], "e"))} :
        /\ heap = W.heap
        /\ eng = W.eng
        /\ alone = [n \in {"e"} |-> W]
        /\ calls = [n \in {"e"} |-> <<>>]
        /\ nupd = [n \in {"e"} |-> 0]
        /\ last = Call("MD5Type", "e", None, <<>>, <<>>, <<>>)
        /\ big = [w \in {"whole", "parts"} |-> SizedNew]

Init == InitEngines /\ run = Idle

\* self.update(inBuf)
Feed(self, inBuf) ==
    \E W \in {Normalise(update(World, self, inBuf))} :
        /\ heap' = W.heap
        /\ eng' = W.eng
        /\ calls' = [calls EXCEPT ![self] = Append(@, inBuf)]
        /\ nupd' = [nupd EXCEPT ![self] = @ + 1]
        /\ alone' = [alone EXCEPT ![self] =
                        [Normalise(update(@, "e", inBuf)) EXCEPT !.log = <<>>]]
        /\ last' = Call("update", self, None, W.log, <<>>, <<>>)
        /\ UNCHANGED <<big, run>>

Update(self, inBuf) ==
    /\ self \in DOMAIN eng
    /\ nupd[self] < (IF self = "e" THEN MaxUpdates ELSE MaxCloneUpdates)
    /\ Feed(self, inBuf)

\* self.digest()
Digest(self) ==
    /\ self \in DOMAIN eng
    /\ \E r \in {digest(World, self)} :
        \E W \in {Normalise(r.world)} :
            /\ heap' = W.heap
            /\ eng' = W.eng
            /\ last' = Call("digest", self, r.ret, W.log, r.pad, r.padded)
    /\ UNCHANGED <<calls, nupd, alone, big, run>>

\* self.hexdigest()
HexDigest(self) ==
    /\ self \in DOMAIN eng
    /\ \E r \in {hexdigest(World, self)} :
        \E W \in {Normalise(r.world)} :
            /\ heap' = W.heap
            /\ eng' = W.eng
            /\ last' = Call("hexdigest", self, r.ret, W.log, r.pad, r.padded)
    /\ UNCHANGED <<calls, nupd, alone, big, run>>

\* c = e.copy()
Copy ==
    /\ "c" \notin DOMAIN eng
    /\ \E W \in {Normalise(copy(World, "e", "c"))} :
        /\ heap' = W.heap
        /\ eng' = W.eng
        /\ last' = Call("copy", "e", None, W.log, <<>>, <<>>)
    /\ calls' = ("c" :> calls["e"]) @@ calls
    /\ nupd' = ("c" :> 0) @@ nupd
    /\ alone' = ("c" :> alone["e"]) @@ alone
    /\ UNCHANGED <<big, run>>

Next ==
    \/ \E self \in {"e", "c"}, inBuf \in Chunks : Update(self, inBuf)
    \/ \E self \in {"e", "c"} : Digest(self)
    \/ \E self \in {"e", "c"} : HexDigest(self)
    \/ Copy

Spec == Init /\ [][Next]_vars

\* The padding boundaries: one update() of a message of every length up to
\* MaxArg on a new engine, then digest() and hexdigest().
UpdateArg(n) ==
    /\ nupd["e"] = 0
    /\ Feed("e", Msg(n))

NextBoundary ==
    \/ \E n \in 0..MaxArg : UpdateArg(n)
    \/ Digest("e")
    \/ HexDigest("e")

SpecBoundary == Init /\ [][NextBoundary]_vars

\* Long messages: engine "whole" is given its message in one update(),
\* engine "parts" in up to MaxSizedCalls calls, each shorter than 2^29 bytes.
SizedUpdate(w, n) ==
    /\ big[w].ncalls < (IF w = "whole" THEN 1 ELSE MaxSizedCalls)
    /\ w = "parts" => n < 536870912
    /\ big[w].total + n <= MaxSizedTotal
    /\ big' = [big EXCEPT ![w] =
                  [updateSized(@, n) EXCEPT !.total = @ + n,
                                            !.ncalls = @ + 1,
                                            !.dg = <<>>]]
    /\ UNCHANGED small

SizedDigest(w) ==
    /\ big' = [big EXCEPT ![w].dg = <<digestSized(big[w])>>]
    /\ UNCHANGED small

NextSized ==
    \/ \E w \in {"whole", "parts"}, n \in Sizes : SizedUpdate(w, n)
    \/ \E w \in {"whole", "parts"} : SizedDigest(w)

SpecSized == Init /\ [][NextSized]_vars

(* ---------------- properties ---------------- *)

\* What a caller can read of engine n: the fields, with the contents of
\* its lists in place of their addresses.
EngineState(h, g, n) ==
    [length |-> g[n].length, A |-> g[n].A, B |-> g[n].B, C |-> g[n].C,
     D |-> g[n].D, input |-> h[g[n].input], count |-> h[g[n].count]]

Reads == {"digest", "hexdigest"}

\* C2: digest(), hexdigest() and copy() leave A, B, C, D, the buffer and
\* both counter words of every engine exactly as they were before the call,
\* although digest() ran update() on the padding and compressed a block.
C2_ReadsRestoreState ==
    [][last'.op \in Reads \cup {"copy"} =>
          \A n \in DOMAIN eng :
              EngineState(heap', eng', n) = EngineState(heap, eng, n)]_vars

\* A digest() that compressed two blocks and returned, on an engine that
\* holds buffered bytes and has compressed a block before.
C2_Witness ==
    /\ last.op = "digest"
    /\ Len(last.log) = 2
    /\ Len(heap[eng[last.self].input]) = 61
    /\ eng[last.self].A # constantA

\* C4: once c = e.copy() exists, an update(), digest() or hexdigest() on
\* one engine leaves every field of the other unchanged, the two engines
\* share neither list, and the engine that was called is in the state, and
\* returns the digest, of an engine of its own given its full history of
\* update() calls (those of the original before the copy, then its own).
C4_CloneIndependent ==
    [][(DOMAIN eng = {"e", "c"} /\ last'.op \in Reads \cup {"update"}) =>
          /\ \A n \in DOMAIN eng \ {last'.self} :
                 EngineState(heap', eng', n) = EngineState(heap, eng, n)
          /\ {eng'["e"].input, eng'["e"].count}
                 \cap {eng'["c"].input, eng'["c"].count} = {}
          /\ \A a \in {alone'[last'.self]} :
                 /\ EngineState(heap', eng', last'.self)
                        = EngineState(a.heap, a.eng, "e")
                 /\ last'.op = "digest" => last'.ret = digest(a, "e").ret]_vars

\* Both engines were updated after the copy, with different bytes, and the
\* clone then returned a digest.
C4_Witness ==
    /\ DOMAIN eng = {"e", "c"}
    /\ nupd["c"] = 1
    /\ Len(calls["e"]) > Len(calls["c"]) - nupd["c"]
    /\ calls["e"] # calls["c"]
    /\ last.op = "digest"
    /\ last.self = "c"

\* C5: right after c = e.copy(), the clone has the A, B, C, D, buffered
\* bytes and counter words of the original, and its digest() returns what
\* the digest() of the original returns.
C5_CopyEqualsOriginal ==
    last.op = "copy" =>
        /\ EngineState(heap, eng, "c") = EngineState(heap, eng, "e")
        /\ digest(World, "c").ret = digest(World, "e").ret

\* A copy taken of an engine that has compressed a block and holds
\* buffered bytes.
C5_Witness ==
    /\ last.op = "copy"
    /\ Len(heap[eng["c"].input]) = 61
    /\ eng["c"].A # constantA

\* The number of bytes passed to update() by the calls cs.
RECURSIVE TotalLen(_)
TotalLen(cs) == IF cs = <<>> THEN 0 ELSE Len(Head(cs)) + TotalLen(Tail(cs))

\* Bytes buffered in engine n: the message length mod 64.
Buffered(n) == TotalLen(calls[n]) % 64

\* C8: whatever number of bytes, 0..63, is buffered when digest() is
\* called, the padding it feeds to update() is one byte 0x80 followed only
\* by bytes 0x00, is 1 to 64 bytes long, and brings the buffered length to
\* 56 mod 64.
C8_PaddingLength ==
    last.op \in Reads =>
        /\ Len(last.pad) \in 1..64
        /\ last.pad[1] = 128
        /\ \A k \in 2..Len(last.pad) : last.pad[k] = 0
        /\ (Buffered(last.self) + Len(last.pad)) % 64 = 56
        /\ Len(last.pad) = (IF Buffered(last.self) < 56 THEN 56 ELSE 120)
                           - Buffered(last.self)

\* digest() called with exactly 56 bytes buffered: 64 bytes of padding.
C8_Witness ==
    /\ last.op = "digest"
    /\ Buffered(last.self) = 56
    /\ Len(last.pad) = 64

\* C9: digest() called with fewer than 56 bytes buffered compresses
\* exactly one block, called with 56 to 63 bytes buffered it compresses
\* exactly two; in both cases the buffer holds exactly 56 bytes after the
\* padding update, before the last block is compressed.
C9_BoundaryBranches ==
    last.op \in Reads =>
        /\ Buffered(last.self) < 56 => Len(last.log) = 1
        /\ Buffered(last.self) >= 56 => Len(last.log) = 2
        /\ Len(last.padded) = 56

\* digest() of a message of exactly 64 bytes: the buffer was empty, one
\* block was compressed by digest() (the message block by update() before).
C9_Witness ==
    /\ last.op = "digest"
    /\ TotalLen(calls[last.self]) = 64
    /\ Len(last.log) = 1
    /\ eng[last.self].A # constantA

\* Four bytes as one little-endian 32-bit word.
LittleEndian(b0, b1, b2, b3) == Word(b2 + 256 * b3, b0 + 256 * b1)

\* C10: the last block digest() compresses is the 56 buffer bytes left by
\* the padding update, as 14 little-endian 32-bit words, followed by the
\* low and then the high counter word as they were when digest() was
\* called, before the padding went through update().
C10_LastBlock ==
    [][last'.op \in Reads =>
          /\ Len(last'.padded) = 56
          /\ last'.log[Len(last'.log)] =
                 [k \in 1..14 |->
                     LittleEndian(last'.padded[4 * k - 3], last'.padded[4 * k - 2],
                                  last'.padded[4 * k - 1], last'.padded[4 * k])]
                 \o heap[eng[last'.self].count]]_vars

\* digest() of a 57-byte message: the last block is the second one
\* compressed and ends with the length 456, 0.
C10_Witness ==
    /\ last.op = "digest"
    /\ TotalLen(calls[last.self]) = 57
    /\ Len(last.log) = 2
    /\ last.log[2][15] = FromNat(456)
    /\ last.log[2][16] = long_zero

\* The bit length 8 * n of a message of n bytes, as an integer.
BitLength(n) == PyShl(FromNat(n), 3)

TwoTo32 == PyShl(FromNat(1), 32)

\* C1: an engine given a message in pieces ends in the same state
\* (counters, buffer, accumulators) as an engine given it in one update().
C1_ChunkingInvariance ==
    (big["whole"].total = big["parts"].total /\ big["whole"].ncalls = 1) =>
        /\ big["parts"].count = big["whole"].count
        /\ big["parts"].input = big["whole"].input
        /\ big["parts"].blocks = big["whole"].blocks

\* C3: what digest() returns depends only on the bytes passed to update()
\* before it, not on how they were split into calls.
C3_DigestOfConcatenation ==
    (/\ big["whole"].total = big["parts"].total
     /\ big["whole"].dg # <<>>
     /\ big["parts"].dg # <<>>) =>
        big["parts"].dg = big["whole"].dg

\* C6: after update() calls totalling n bytes the low counter word is
\* 8n mod 2^32 and the high counter word is floor(8n / 2^32) mod 2^32.
C6_BitLengthCarry ==
    \A w \in {"whole", "parts"} :
        /\ big[w].count[1] = PyAnd(BitLength(big[w].total), ffffffffL)
        /\ big[w].count[2] = PyAnd(PyShr(BitLength(big[w].total), 32), ffffffffL)

\* C7: both counter words stay in 0 .. 2^32 - 1.
C7_CounterWords32Bit ==
    \A w \in {"whole", "parts"} :
        \A k \in 1..2 :
            /\ ~PyLess(big[w].count[k], long_zero)
            /\ PyLess(big[w].count[k], TwoTo32)

\* C11: between calls, after any sequence of update(), digest(),
\* hexdigest() and copy(), the buffer of every engine holds fewer than 64
\* bytes.
C11_BufferBelow64 ==
    \A n \in DOMAIN eng : Len(heap[eng[n].input]) < 64

\* An update() of 3 bytes on an engine that held 61: the block was filled
\* exactly and compressed, and the buffer is empty.
C11_Witness ==
    /\ last.op = "update"
    /\ calls[last.self] = <<Msg(125), <<97, 98, 99>>>>
    /\ Len(last.log) = 1
    /\ heap[eng[last.self].input] = <<>>

\* An integer of the range 0 .. 2^32 - 1.
InWord32(x) == ~PyLess(x, long_zero) /\ PyLess(x, TwoTo32)

\* The words of the blocks compressed in the last call, with 0 and 2^32 - 1.
WordsSeen == {long_zero, ffffffffL} \cup {b[k] : b \in {last.log[j] : j \in DOMAIN last.log}, k \in 1..16}

\* C12: in every reachable state A, B, C and D of every engine are integers
\* of 0 .. 2^32 - 1 (they are the initial constants or sums stored by
\* _transform), and so is what XX returns for these accumulators, any of
\* the four functions, and any message word.
C12_Accumulators32Bit ==
    \A n \in DOMAIN eng :
        /\ \A v \in {eng[n].A, eng[n].B, eng[n].C, eng[n].D} : InWord32(v)
        /\ \A func \in {"F", "G", "H", "I"}, x \in WordsSeen :
               /\ InWord32(XX(func, eng[n].A, eng[n].B, eng[n].C, eng[n].D,
                              x, 7, hex_constants[1]))
               /\ InWord32(XX(func, eng[n].D, eng[n].A, eng[n].B, eng[n].C,
                              x, 23, hex_constants[64]))

\* An engine that has compressed three blocks: every accumulator differs
\* from its initial constant.
C12_Witness ==
    /\ last.op = "update"
    /\ Len(last.log) = 2
    /\ eng[last.self].A # constantA
    /\ eng[last.self].B # constantB
    /\ eng[last.self].C # constantC
    /\ eng[last.self].D # constantD
    /\ TotalLen(calls[last.self]) = 250

\* C13: update() with no bytes changes nothing: A, B, C, D, the contents
\* of the buffer and both counter words of the engine are what they were
\* before the call, and no block is compressed.
C13_EmptyUpdateNoOp ==
    [][(/\ last'.op = "update"
        /\ calls'[last'.self] = Append(calls[last'.self], <<>>)) =>
          /\ EngineState(heap', eng', last'.self)
                 = EngineState(heap, eng, last'.self)
          /\ last'.log = <<>>]_vars

\* An empty update() on an engine that has compressed a block and holds 61
\* buffered bytes.
C13_Witness ==
    /\ last.op = "update"
    /\ calls[last.self] = <<Msg(125), <<>>>>
    /\ Len(heap[eng[last.self].input]) = 61
    /\ eng[last.self].A # constantA

\* The 16 little-endian words of the 64 bytes of bytes from position p on.
BlockAt(bytes, p) ==
    [k \in 1..16 |->
        LittleEndian(bytes[p + 4 * k - 4], bytes[p + 4 * k - 3],
                     bytes[p + 4 * k - 2], bytes[p + 4 * k - 1])]

\* The property of C14 for a call update(inBuf) on an engine that held the
\* bytes buf: log is the sequence of blocks compressed in the call and
\* after the buffer once the call has returned.
BlockAccounting(buf, inBuf, log, after) ==
    LET all == buf \o inBuf
        rounds == Len(all) \div 64
    IN  /\ Len(log) = rounds
        /\ \A k \in 1..rounds : log[k] = BlockAt(all, 64 * (k - 1) + 1)
        /\ Len(after) = Len(all) % 64
        /\ after = SubSeq(all, 64 * rounds + 1, Len(all))

\* C14: update() of len bytes on an engine with index bytes buffered
\* compresses exactly (index + len) \div 64 blocks, the k-th being bytes
\* 64(k-1)+1 .. 64k of the buffer followed by the new bytes, and leaves the
\* last (index + len) % 64 of these bytes in the buffer.
C14_BlockAccounting ==
    [][last'.op = "update" =>
          BlockAccounting(heap[eng[last'.self].input],
                          calls'[last'.self][Len(calls'[last'.self])],
                          last'.log,
                          heap'[eng'[last'.self].input])]_vars

\* update() of 125 bytes on an engine that held 61: two blocks compressed
\* (one completed from the buffer, one by the loop), 58 bytes left.
C14_Witness ==
    /\ last.op = "update"
    /\ calls[last.self] = <<Msg(125), Msg(125)>>
    /\ Len(last.log) = 2
    /\ Len(heap[eng[last.self].input]) = 58

\* The engine record self after _transform ran on every block of log.
RECURSIVE AfterBlocks(_, _)
AfterBlocks(self, log) ==
    IF log = <<>> THEN self
    ELSE AfterBlocks(transform(self, Head(log)), Tail(log))

\* The four bytes of a 32-bit integer, least significant first.
BytesLE(w) ==
    <<Limb(w, 1) % 256, Limb(w, 1) \div 256, Limb(w, 2) % 256, Limb(w, 2) \div 256>>

\* The 16 bytes of A, B, C, D of the engine record self.
AccumulatorBytes(self) ==
    BytesLE(self.A) \o BytesLE(self.B) \o BytesLE(self.C) \o BytesLE(self.D)

LowerHex == {HexChars[v] : v \in 1..16}

\* The value 0..15 of a lowercase hexadecimal digit.
HexValue(c) == CHOOSE v \in 0..15 : HexChars[v + 1] = c

\* ret is the text of bytes: two lowercase hexadecimal digits a byte, the
\* high nibble first, in the order of the bytes.
IsHexOf(ret, bytes) ==
    /\ Len(ret) = 2 * Len(bytes)
    /\ \A j \in 1..Len(ret) : ret[j] \in LowerHex
    /\ \A j \in 1..Len(bytes) :
           16 * HexValue(ret[2 * j - 1]) + HexValue(ret[2 * j]) = bytes[j]

\* The property of C15 for a call that returned ret, final being the
\* engine record after the last block of the call was compressed.
DigestFormat(op, ret, final) ==
    /\ Len(AccumulatorBytes(final)) = 16
    /\ op = "digest" => ret = AccumulatorBytes(final)
    /\ op = "hexdigest" => Len(ret) = 32 /\ IsHexOf(ret, AccumulatorBytes(final))

\* C15: digest() returns the 16 bytes of A, B, C, D, in that order and each
\* least significant byte first, as they are after the last block was
\* compressed (the engine is restored afterwards); hexdigest() returns 32
\* lowercase hexadecimal characters, two for each of these bytes in order,
\* high nibble first.
C15_DigestFormat ==
    last.op \in Reads =>
        DigestFormat(last.op, last.ret, AfterBlocks(eng[last.self], last.log))

\* A hexdigest() that compressed two blocks and returned a text with a
\* byte below 16 (a leading "0") and a digit above 9.
C15_Witness ==
    /\ last.op = "hexdigest"
    /\ Len(last.log) = 2
    /\ \E j \in 1..16 : last.ret[2 * j - 1] = "0"
    /\ \E j \in 1..32 : last.ret[j] \in {"a", "b", "c", "d", "e", "f"}

\* "d41d8cd98f00b204e9800998ecf8427e", a character an element.
VectorEmpty ==
    <<"d", "4", "1", "d", "8", "c", "d", "9", "8", "f", "0", "0", "b", "2", "0", "4",
      "e", "9", "8", "0", "0", "9", "9", "8", "e", "c", "f", "8", "4", "2", "7", "e">>

\* "900150983cd24fb0d6963f7d28e17f72"
VectorAbc ==
    <<"9", "0", "0", "1", "5", "0", "9", "8", "3", "c", "d", "2", "4", "f", "b", "0",
      "d", "6", "9", "6", "3", "f", "7", "d", "2", "8", "e", "1", "7", "f", "7", "2">>

\* C16: hexdigest() of a new engine that was given no input is
\* d41d8cd98f00b204e9800998ecf8427e, and hexdigest() after one update()
\* with the three bytes "abc" is 900150983cd24fb0d6963f7d28e17f72.
C16_KnownVectors ==
    last.op = "hexdigest" =>
        /\ calls[last.self] = <<>> => last.ret = VectorEmpty
        /\ calls[last.self] = <<<<97, 98, 99>>>> => last.ret = VectorAbc

\* hexdigest() was called on the engine that was given "abc" in one
\* update() and nothing else.
C16_Witness ==
    /\ last.op = "hexdigest"
    /\ last.self = "e"
    /\ calls["e"] = <<<<97, 98, 99>>>>
    /\ Len(last.log) = 1
    /\ last.ret[1] = "9"

(* ---------------- the vector of the pangram ---------------- *)

\* "The quick brown fox jumps over the lazy dog" as byte values.
Fox ==
    <<84, 104, 101, 32, 113, 117, 105, 99, 107, 32, 98, 114, 111, 119, 110,
      32, 102, 111, 120, 32, 106, 117, 109, 112, 115, 32, 111, 118, 101, 114,
      32, 116, 104, 101, 32, 108, 97, 122, 121, 32, 100, 111, 103>>

\* "9e107d9d372bb6826bd81d3542a419d6"
VectorFox ==
    <<"9", "e", "1", "0", "7", "d", "9", "d", "3", "7", "2", "b", "b", "6", "8", "2",
      "6", "b", "d", "8", "1", "d", "3", "5", "4", "2", "a", "4", "1", "9", "d", "6">>

\* The pangram given to a new engine in two update() calls, split at any
\* position p (the first or the second piece may be empty), with digest()
\* and hexdigest() at any time.
FoxFirst(p) ==
    /\ calls["e"] = <<>>
    /\ Feed("e", SubSeq(Fox, 1, p))

FoxRest ==
    /\ Len(calls["e"]) = 1
    /\ Feed("e", SubSeq(Fox, Len(calls["e"][1]) + 1, Len(Fox)))

NextFox ==
    \/ \E p \in 0..Len(Fox) : FoxFirst(p)
    \/ FoxRest
    \/ Digest("e")
    \/ HexDigest("e")

SpecFox == Init /\ [][NextFox]_vars

\* The bytes of the calls cs, in order.
RECURSIVE Concat(_)
Concat(cs) == IF cs = <<>> THEN <<>> ELSE Head(cs) \o Concat(Tail(cs))

\* hexdigest() has just returned on the engine that was given the pangram.
FoxDigested == last.op = "hexdigest" /\ Concat(calls["e"]) = Fox

\* C17 as stated: the pangram is a string of 56 bytes and its hexdigest()
\* is 9e107d9d372bb6826bd81d3542a419d6.
C17_FoxVector56Bytes ==
    FoxDigested => Len(Fox) = 56 /\ last.ret = VectorFox

\* C17: the pangram is a string of 43 bytes and its hexdigest() is
\* 9e107d9d372bb6826bd81d3542a419d6, however the string is split over two
\* update() calls; digest() compresses one block for it.
C17_FoxVector ==
    FoxDigested =>
        /\ Len(Fox) = 43
        /\ Len(last.log) = 1
        /\ last.ret = VectorFox

\* hexdigest() of the pangram given as "The quick brown fox" and the rest.
C17_Witness ==
    /\ FoxDigested
    /\ Len(calls["e"]) = 2
    /\ Len(calls["e"][1]) = 19
    /\ last.ret[1] = "9"

(* ---------------- XX and _transform step by step ---------------- *)

\* Arguments of the XX calls followed: 32-bit values with the top bit set
\* and clear, all ones and zero among them.
SampleA == {long_zero, ffffffffL, constantA}

SampleB == {constantB, ffffffffL}

SampleC == {constantC, long_zero}

SampleD == {constantD, ffffffffL}

SampleX == {long_zero, Word(\h8000, \h0001)}

SampleAc == {hex_constants[1], hex_constants[64]}

SampleInp ==
    {bytelist2long(Msg(64)), [k \in 1..16 |-> ffffffffL]}

PendingXX ==
    [op : {"XX"}, func : {"F", "G", "H", "I"}, a : SampleA, b : SampleB,
     c : SampleC, d : SampleD, x : SampleX, s : 1..31, ac : SampleAc,
     res : {None}]

\* _transform(inp) about to run on an engine with the accumulators before:
\* pc XX calls were made, r holds the local variables a, b, c, d, reads the
\* indices of inp read in the current group of 16 calls, and after the
\* accumulators once the four sums were stored.
PendingTransform ==
    {[op |-> "transform", pc |-> 0, before |-> acc,
      r |-> [a |-> acc.A, b |-> acc.B, c |-> acc.C, d |-> acc.D],
      inp |-> inp, reads |-> <<>>, after |-> None] :
        acc \in {[A |-> constantA, B |-> constantB, C |-> constantC, D |-> constantD],
                 [A |-> ffffffffL, B |-> ffffffffL, C |-> long_zero, D |-> ffffffffL]},
        inp \in SampleInp}

RoundInit == InitEngines /\ run \in PendingXX \cup PendingTransform

\* XX(func, a, b, c, d, x, s, ac) returns.
XXCall ==
    /\ run.op = "XX"
    /\ run.res = None
    /\ run' = [run EXCEPT !.res = XX(run.func, run.a, run.b, run.c, run.d,
                                     run.x, run.s, run.ac)]
    /\ UNCHANGED <<heap, eng, calls, nupd, alone, last, big>>

\* The next of the 64 assignments "a = XX(...)" of _transform.
TransformStep ==
    /\ run.op = "transform"
    /\ run.pc < 64
    /\ run' = [run EXCEPT !.pc = @ + 1,
                          !.r = Step(@, run.inp, Steps[run.pc + 1]),
                          !.reads = (IF run.pc % 16 = 0 THEN <<>> ELSE @)
                                    \o <<Steps[run.pc + 1][4]>>]
    /\ UNCHANGED <<heap, eng, calls, nupd, alone, last, big>>

\* The four assignments "A = (A + a) & ffffffffL" that end _transform.
TransformStore ==
    /\ run.op = "transform"
    /\ run.pc = 64
    /\ run' = [run EXCEPT !.pc = 65, !.after = AddBack(run.before, run.r)]
    /\ UNCHANGED <<heap, eng, calls, nupd, alone, last, big>>

NextRound ==
    \/ XXCall
    \/ TransformStep
    \/ TransformStore

SpecRound == RoundInit /\ [][NextRound]_vars

(* The step of RFC 1321 on 32-bit words, a word being the pair of its low
   and high 16 bits, computed with integer arithmetic bit by bit. *)

RefWord(x) == <<Limb(x, 1), Limb(x, 2)>>

RefInt(w) == Word(w[2], w[1])

\* (u + v) mod 2^32
RefAdd(u, v) ==
    <<(u[1] + v[1]) % 65536,
      (u[2] + v[2] + ((u[1] + v[1]) \div 65536)) % 65536>>

Bit(n, i) == (n \div (2 ^ i)) % 2

\* One bit of F, G, H, I of RFC 1321.
RefBit(func, x, y, z) ==
    CASE func = "F" -> IF x = 1 THEN y ELSE z
      [] func = "G" -> IF z = 1 THEN x ELSE y
      [] func = "H" -> (x + y + z) % 2
      [] func = "I" -> (y + (IF x = 1 \/ z = 0 THEN 1 ELSE 0)) % 2

RECURSIVE RefBits(_, _, _, _, _)
RefBits(func, x, y, z, i) ==
    IF i = 16 THEN 0
    ELSE (2 ^ i) * RefBit(func, Bit(x, i), Bit(y, i), Bit(z, i))
         + RefBits(func, x, y, z, i + 1)

RefFunc(func, u, v, w) ==
    <<RefBits(func, u[1], v[1], w[1], 0), RefBits(func, u[2], v[2], w[2], 0)>>

\* Rotation to the left by t bits, 0 <= t < 16.
RefRotl16(w, t) ==
    <<((w[1] * (2 ^ t)) % 65536) + (w[2] \div (2 ^ (16 - t))),
      ((w[2] * (2 ^ t)) % 65536) + (w[1] \div (2 ^ (16 - t)))>>

\* rotate_left_32(w, s), 0 <= s < 32.
RefRotl(w, s) ==
    IF s >= 16 THEN RefRotl16(<<w[2], w[1]>>, s - 16) ELSE RefRotl16(w, s)

\* (b + rotate_left_32((a + func(b, c, d) + x + ac) mod 2^32, s)) mod 2^32
RefXX(func, a, b, c, d, x, s, ac) ==
    RefAdd(b, RefRotl(RefAdd(RefAdd(RefAdd(a, RefFunc(func, b, c, d)), x), ac), s))

\* C18: XX(func, a, b, c, d, x, s, ac) is
\* (b + rotate_left_32((a + func(b, c, d) + x + ac) mod 2^32, s)) mod 2^32
\* for 32-bit a, b, c, d, x, ac, every shift s of 1..31 and func any of F,
\* G, H, I; and after its 64 steps _transform stores in each of A, B, C, D
\* (its value before the call + the local variable a, b, c, d) mod 2^32,
\* which is what transform computes in one go.
C18_StepAndFeedForward ==
    /\ (run.op = "XX" /\ run.res # None) =>
           run.res = RefInt(RefXX(run.func, RefWord(run.a), RefWord(run.b),
                                  RefWord(run.c), RefWord(run.d),
                                  RefWord(run.x), run.s, RefWord(run.ac)))
    /\ (run.op = "transform" /\ run.pc = 65) =>
           /\ run.after.A = RefInt(RefAdd(RefWord(run.before.A), RefWord(run.r.a)))
           /\ run.after.B = RefInt(RefAdd(RefWord(run.before.B), RefWord(run.r.b)))
           /\ run.after.C = RefInt(RefAdd(RefWord(run.before.C), RefWord(run.r.c)))
           /\ run.after.D = RefInt(RefAdd(RefWord(run.before.D), RefWord(run.r.d)))
           /\ run.after = transform(run.before, run.inp)

\* XX returned for the function I, a shift of 31 and operands whose sum
\* passes 2^32.
C18_Witness ==
    /\ run.op = "XX"
    /\ run.res # None
    /\ run.func = "I"
    /\ run.s = 31
    /\ run.a = ffffffffL
    /\ run.b = ffffffffL
    /\ run.x # long_zero

(* The schedule of RFC 1321 for step k, 0 <= k <= 63. *)

\* The register updated: a, d, c, b in turn.
RfcTarget(k) == <<"a", "d", "c", "b">>[(k % 4) + 1]

\* The registers in the roles a, b, c, d of the step: the updated register
\* first, then the other three in the cyclic order a, b, c, d.
RfcRoles(k) ==
    << <<"a", "b", "c", "d">>, <<"d", "a", "b", "c">>,
       <<"c", "d", "a", "b">>, <<"b", "c", "d", "a">> >>[(k % 4) + 1]

RfcFunc(k) == <<"F", "G", "H", "I">>[(k \div 16) + 1]

RfcWord(k) ==
    CASE k < 16 -> k
      [] k \in 16..31 -> (1 + 5 * k) % 16
      [] k \in 32..47 -> (5 + 3 * k) % 16
      [] k \in 48..63 -> (7 * k) % 16

RfcShift(k) ==
    << <<7, 12, 17, 22>>, <<5, 9, 14, 20>>,
       <<4, 11, 16, 23>>, <<6, 10, 15, 21>> >>[(k \div 16) + 1][(k % 4) + 1]

\* The registers after step k on the registers r and the block inp.
RfcStep(k, r, inp) ==
    [r EXCEPT ![RfcTarget(k)] =
        RefInt(RefXX(RfcFunc(k),
                     RefWord(r[RfcRoles(k)[1]]), RefWord(r[RfcRoles(k)[2]]),
                     RefWord(r[RfcRoles(k)[3]]), RefWord(r[RfcRoles(k)[4]]),
                     RefWord(inp[RfcWord(k) + 1]), RfcShift(k),
                     RefWord(hex_constants[k + 1])))]

\* C19: the k-th assignment of _transform, k = 0..63, is the step k of RFC
\* 1321: it adds constant number k, updates the register a, d, c, b in
\* turn, and uses F with word k and shifts 7, 12, 17, 22 for k < 16, G with
\* word (1 + 5k) mod 16 and shifts 5, 9, 14, 20 for 16 <= k < 32, H with
\* word (5 + 3k) mod 16 and shifts 4, 11, 16, 23 for 32 <= k < 48, I with
\* word 7k mod 16 and shifts 6, 10, 15, 21 for 48 <= k; the 16 steps of a
\* group read every word of the block exactly once.
C19_Rfc1321Schedule ==
    [][(run.op = "transform" /\ run.pc < 64 /\ run'.pc = run.pc + 1) =>
          /\ run'.r = RfcStep(run.pc, run.r, run.inp)
          /\ run'.reads[Len(run'.reads)] = RfcWord(run.pc)
          /\ run'.pc % 16 = 0 =>
                 /\ Len(run'.reads) = 16
                 /\ {run'.reads[j] : j \in 1..16} = 0..15]_vars

\* All 64 steps were made on a block of 16 different words; the last
\* group read the words in the order 0, 7, 14, 5, ...
C19_Witness ==
    /\ run.op = "transform"
    /\ run.pc = 64
    /\ run.inp = bytelist2long(Msg(64))
    /\ Cardinality({run.inp[j] : j \in 1..16}) = 16
    /\ run.reads = <<0, 7, 14, 5, 12, 3, 10, 1, 8, 15, 6, 13, 4, 11, 2, 9>>

(* ---------------- the fingerprint of a public key ---------------- *)

\* Keys of 1 .. MaxKeyLen bytes.
MaxKeyLen == 100

\* The DER bytes of a public key of n bytes.
KeyBytes(n) == <<>> \o [i \in 1..n |-> (37 * i + 11) % 256]

\* The characters A-Z a-z 0-9 + / of base64, as byte values; = is 61 and
\* the newline 10.
B64Chars ==
    <<65, 66, 67, 68, 69, 70, 71, 72, 73, 74, 75, 76, 77, 78, 79, 80,
      81, 82, 83, 84, 85, 86, 87, 88, 89, 90, 97, 98, 99, 100, 101, 102,
      103, 104, 105, 106, 107, 108, 109, 110, 111, 112, 113, 114, 115, 116, 117, 118,
      119, 120, 121, 122, 48, 49, 50, 51, 52, 53, 54, 55, 56, 57, 43, 47>>

\* b'-----BEGIN PUBLIC KEY-----'
header ==
    <<45, 45, 45, 45, 45, 66, 69, 71, 73, 78, 32, 80, 85, 66, 76, 73,
      67, 32, 75, 69, 89, 45, 45, 45, 45, 45>>

\* b'-----END PUBLIC KEY-----'
footer ==
    <<45, 45, 45, 45, 45, 69, 78, 68, 32, 80, 85, 66, 76, 73, 67, 32,
      75, 69, 89, 45, 45, 45, 45, 45>>

\* base64 of the bytes d, without line breaks: character p (from 0) of
\* group p \div 4, "=" where the last group runs out of bytes.
B64Char(d, p) ==
    LET g == 3 * (p \div 4)
        b0 == d[g + 1]
        b1 == IF g + 2 <= Len(d) THEN d[g + 2] ELSE 0
        b2 == IF g + 3 <= Len(d) THEN d[g + 3] ELSE 0
    IN  CASE p % 4 = 0 -> B64Chars[(b0 \div 4) + 1]
          [] p % 4 = 1 -> B64Chars[((b0 % 4) * 16 + (b1 \div 16)) + 1]
          [] p % 4 = 2 -> IF g + 2 > Len(d) THEN 61
                          ELSE B64Chars[((b1 % 16) * 4 + (b2 \div 64)) + 1]
          [] p % 4 = 3 -> IF g + 3 > Len(d) THEN 61
                          ELSE B64Chars[(b2 % 64) + 1]

b64encode(d) == <<>> \o [q \in 1..(4 * ((Len(d) + 2) \div 3)) |-> B64Char(d, q - 1)]

\* Lines of 64 characters, a newline after each.
Wrap64(text) ==
    <<>> \o [q \in 1..(Len(text) + ((Len(text) + 63) \div 64)) |->
                IF q % 65 = 0 \/ q = Len(text) + ((Len(text) + 63) \div 64)
                THEN 10
                ELSE text[q - ((q - 1) \div 65)]]

\* public_key.public_bytes(PEM, SubjectPublicKeyInfo) of the cryptography
\* library, for the key with DER bytes public_key: header line, base64 in
\* lines of 64 characters, footer line.
public_bytes(public_key) ==
    header \o <<10>> \o Wrap64(b64encode(public_key)) \o footer \o <<10>>

MinOf(S) == CHOOSE x \in S : \A y \in S : x <= y

\* Positions from p on where pat occurs in seq.
Matches(seq, pat, p) ==
    {j \in p..(Len(seq) - Len(pat) + 1) : SubSeq(seq, j, j + Len(pat) - 1) = pat}

\* seq[p:] with every occurrence of pat removed, left to right.
RECURSIVE ReplaceFrom(_, _, _)
CutAt(seq, pat, p, j) ==
    SubSeq(seq, p, j - 1) \o ReplaceFrom(seq, pat, j + Len(pat))

ReplaceAt(seq, pat, p, M) ==
    IF M = {} THEN SubSeq(seq, p, Len(seq)) ELSE CutAt(seq, pat, p, MinOf(M))

ReplaceFrom(seq, pat, p) == ReplaceAt(seq, pat, p, Matches(seq, pat, p))

\* bytes.replace(header, b'').replace(footer, b'').replace(b'\n', b'')
StripPem(bytes) ==
    ReplaceFrom(ReplaceFrom(ReplaceFrom(bytes, header, 1), footer, 1), <<10>>, 1)

B64Value(c) == IF c = 61 THEN 0 ELSE CHOOSE v \in 0..63 : B64Chars[v + 1] = c

\* Number of "=" that end text, 0..2.
B64Pad(text) ==
    IF text = <<>> \/ text[Len(text)] # 61 THEN 0
    ELSE IF text[Len(text) - 1] # 61 THEN 1 ELSE 2

\* Byte n (from 0) of the decoding of text.
B64Byte(text, n) ==
    LET g == 4 * (n \div 3)
    IN  CASE n % 3 = 0 -> B64Value(text[g + 1]) * 4 + (B64Value(text[g + 2]) \div 16)
          [] n % 3 = 1 -> (B64Value(text[g + 2]) % 16) * 16
                          + (B64Value(text[g + 3]) \div 4)
          [] n % 3 = 2 -> (B64Value(text[g + 3]) % 4) * 64 + B64Value(text[g + 4])

\* base64.b64decode(text) for a text of whole groups of 4 characters.
b64decode(text) ==
    <<>> \o [q \in 1..(3 * (Len(text) \div 4) - B64Pad(text)) |-> B64Byte(text, q - 1)]

\* new(arg) in a world of its own: crypto = MD5Type(), and update(arg) if
\* arg is not empty.
NewEngine(W) == MD5Type(W, "e")

new(arg) ==
    IF arg # <<>>
    THEN update(NewEngine([heap |-> <<>>, eng |-> <<>>, log |-> <<>>]), "e", arg)
    ELSE NewEngine([heap |-> <<>>, eng |-> <<>>, log |-> <<>>])

md5(arg) == new(arg)

\* s[start::2], start being 0 or 1.
EverySecond(s, start) ==
    [k \in 1..((Len(s) - start + 1) \div 2) |-> s[2 * k - 1 + start]]

\* zip(x, y), every pair being the two-character string a + b.
Zip(x, y) == [k \in 1..Min(Len(x), Len(y)) |-> <<x[k], y[k]>>]

\* ':'.join(pairs)
JoinColon(pairs) ==
    [q \in 1..Max(3 * Len(pairs) - 1, 0) |->
        IF q % 3 = 0 THEN ":" ELSE pairs[(q + 2) \div 3][q % 3]]

\* The pairs taken as zip(fp_plain[1::2], fp_plain[::2]).
Regroup_swapped(fp_plain) ==
    JoinColon(Zip(EverySecond(fp_plain, 1), EverySecond(fp_plain, 0)))

\* ':'.join(a + b for a, b in zip(fp_plain[::2], fp_plain[1::2]))
Regroup(fp_plain) ==
    JoinColon(Zip(EverySecond(fp_plain, 0), EverySecond(fp_plain, 1)))

public_key_to_fingerprint(public_key) ==
    Regroup(hexdigest(md5(b64decode(StripPem(public_bytes(public_key)))), "e").ret)

PendingFingerprint ==
    {[op |-> "public_key_to_fingerprint", public_key |-> KeyBytes(n), res |-> None] :
        n \in 1..MaxKeyLen}

FingerprintInit == InitEngines /\ run \in PendingFingerprint

\* public_key_to_fingerprint(public_key) returns.
FingerprintCall ==
    /\ run.op = "public_key_to_fingerprint"
    /\ run.res = None
    /\ run' = [run EXCEPT !.res = public_key_to_fingerprint(run.public_key)]
    /\ UNCHANGED <<heap, eng, calls, nupd, alone, last, big>>

NextFingerprint == FingerprintCall

SpecFingerprint == FingerprintInit /\ [][NextFingerprint]_vars

\* text without its colons.
NoColons(text) == SelectSeq(text, LAMBDA ch : ch # ":")

\* hexdigest() of a new engine given bytes in one update().
HexdigestOfOneUpdate(bytes) ==
    hexdigest(update(NewEngine([heap |-> <<>>, eng |-> <<>>, log |-> <<>>]), "e", bytes),
              "e").ret

\* C20: public_key_to_fingerprint returns 47 characters: 16 groups of two
\* lowercase hexadecimal digits separated by 15 colons, none at either end;
\* without the colons they are, in order, the 32 characters hexdigest()
\* returns for a new engine given the DER bytes of the key (the bytes the
\* base64 text between the PEM header and footer decodes to) in one
\* update().
C20_FingerprintFormat ==
    (run.op = "public_key_to_fingerprint" /\ run.res # None) =>
        /\ Len(run.res) = 47
        /\ \A q \in 1..47 : (run.res[q] = ":") <=> (q % 3 = 0)
        /\ \A q \in 1..47 : q % 3 # 0 => run.res[q] \in LowerHex
        /\ NoColons(run.res) = HexdigestOfOneUpdate(run.public_key)

\* The fingerprint of a key of 100 bytes, whose PEM text has three lines
\* of base64, the last ending in "=".
C20_Witness ==
    /\ run.op = "public_key_to_fingerprint"
    /\ run.res # None
    /\ Len(run.public_key) = 100
    /\ Len(run.res) = 47
    /\ run.res[3] = ":"

\* The last n elements of seq.
LastBytes(seq, n) == SubSeq(seq, Len(seq) - n + 1, Len(seq))

\* C26: between calls, an engine given n bytes in all by its update()
\* calls holds n mod 64 bytes in its buffer, this number is
\* (count[0] >> 3) & 0x3F, and the buffer is the last n mod 64 bytes of the
\* message, in order.
C26_BufferCounterAgreement ==
    \A n \in DOMAIN eng :
        /\ Len(heap[eng[n].input]) = TotalLen(calls[n]) % 64
        /\ Len(heap[eng[n].input]) = IndexOf(heap[eng[n].count])
        /\ heap[eng[n].input] = LastBytes(Concat(calls[n]), TotalLen(calls[n]) % 64)

\* An engine given 125 and then 3 bytes: 128 bytes in all, two blocks
\* compressed, and an empty buffer.
C26_Witness ==
    /\ last.op = "update"
    /\ calls[last.self] = <<Msg(125), <<97, 98, 99>>>>
    /\ IndexOf(heap[eng[last.self].count]) = 0
    /\ eng[last.self].A # constantA

(* ---------------- cleanup.py ---------------- *)

\* The resources of the tenancy that the scripts deal with: the ten that
\* setup.py creates, and three more that may exist beside them (a second
\* object in the bucket, a second endpoint of the first agent, a tool of
\* the second agent).
Resources ==
    <<"bucket", "object", "object2", "kb", "ds", "job", "agent1", "tool1",
      "endpoint1", "endpoint1b", "agent2", "tool2", "endpoint2">>

Created ==
    {"bucket", "object", "kb", "ds", "job", "agent1", "tool1", "endpoint1",
     "agent2", "endpoint2"}

Kind(res) ==
    CASE res \in {"object", "object2"} -> "object"
      [] res \in {"tool1", "tool2"} -> "tool"
      [] res \in {"endpoint1", "endpoint1b", "endpoint2"} -> "endpoint"
      [] res \in {"agent1", "agent2"} -> "agent"
      [] OTHER -> res

\* The agent a tool or endpoint belongs to, the bucket of an object.
Owner(res) ==
    CASE res \in {"tool1", "endpoint1", "endpoint1b"} -> "agent1"
      [] res \in {"tool2", "endpoint2"} -> "agent2"
      [] res \in {"object", "object2"} -> "bucket"
      [] OTHER -> "tenancy"

\* The lines "KEY=value" that write_ocids of setup.py writes, as a function
\* from the keys to the resources the values name.
OcidsFile ==
    [key \in {"BUCKET_NAME", "KNOWLEDGEBASE_ID", "DATASOURCE_ID",
              "DATA_INGESTION_JOB_ID", "HOTEL_CONCIERGE_AGENT_ID",
              "HOTEL_CONCIERGE_AGENT_ENDPOINT_ID",
              "HOTEL_CONCIERGE_AGENT_RAG_TOOL_ID",
              "HOTEL_CONCIERGE_AGENT_ADK_ID",
              "HOTEL_CONCIERGE_AGENT_ADK_ENDPOINT_ID"} |->
        CASE key = "BUCKET_NAME" -> "bucket"
          [] key = "KNOWLEDGEBASE_ID" -> "kb"
          [] key = "DATASOURCE_ID" -> "ds"
          [] key = "DATA_INGESTION_JOB_ID" -> "job"
          [] key = "HOTEL_CONCIERGE_AGENT_ID" -> "agent1"
          [] key = "HOTEL_CONCIERGE_AGENT_ENDPOINT_ID" -> "endpoint1"
          [] key = "HOTEL_CONCIERGE_AGENT_RAG_TOOL_ID" -> "tool1"
          [] key = "HOTEL_CONCIERGE_AGENT_ADK_ID" -> "agent2"
          [] key = "HOTEL_CONCIERGE_AGENT_ADK_ENDPOINT_ID" -> "endpoint2"]

\* The blocks with the bucket before the knowledge base.
Stages_bucketFirst ==
    <<[key |-> "HOTEL_CONCIERGE_AGENT_ID", pc |-> "list_tools"],
      [key |-> "HOTEL_CONCIERGE_AGENT_ADK_ID", pc |-> "list_tools"],
      [key |-> "BUCKET_NAME", pc |-> "list_objects"],
      [key |-> "KNOWLEDGEBASE_ID", pc |-> "delete_knowledge_base"]>>

\* The four blocks of main of cleanup.py in the order of the code: the key
\* each looks up in ocids and the call it starts with.
Stages ==
    <<[key |-> "HOTEL_CONCIERGE_AGENT_ID", pc |-> "list_tools"],
      [key |-> "HOTEL_CONCIERGE_AGENT_ADK_ID", pc |-> "list_tools"],
      [key |-> "KNOWLEDGEBASE_ID", pc |-> "delete_knowledge_base"],
      [key |-> "BUCKET_NAME", pc |-> "list_objects"]>>

\* The keys main of cleanup.py looks up.
StageKeys == {Stages[i].key : i \in 1..Len(Stages)}

\* A service call returns, or raises a ServiceError with a status and a
\* message.
Returned == [status |-> 200, message |-> ""]

ServiceErrors ==
    {[status |-> 404, message |-> "NotAuthorizedOrNotFound"],
     [status |-> 409, message |-> "Conflict: AgentEndpoint resources exist"],
     [status |-> 409, message |-> "Conflict"],
     [status |-> 500, message |-> "InternalError"]}

Outcomes == {Returned} \cup ServiceErrors

\* "AgentEndpoint" in e.message
MentionsAgentEndpoint(message) ==
    message \in {"Conflict: AgentEndpoint resources exist"}

\* The call call(target) was made with the outcome o and main printed the
\* report for it; failed records that some call of the run has raised.
Issue(r, call, target, o, report) ==
    [r EXCEPT !.log = Append(@, <<call, target>>),
              !.failed = @ \/ o.status # 200,
              !.out = [call |-> call, target |-> target, status |-> o.status,
                       message |-> o.message, report |-> report]]

\* main goes to the first of its blocks from the i-th on whose key is in
\* ocids, or to its end.
RECURSIVE EnterStage(_, _)
EnterStage(r, i) ==
    IF i > Len(Stages) THEN [r EXCEPT !.pc = "done", !.stage = i]
    ELSE IF Stages[i].key \in r.ocids
         THEN [r EXCEPT !.pc = Stages[i].pc, !.stage = i,
                        !.target = OcidsFile[Stages[i].key]]
         ELSE EnterStage(r, i + 1)

\* The resources of a kind that the service lists for an owner.
Listed(cloud, kind, owner) ==
    SelectSeq(Resources,
              LAMBDA res : res \in cloud /\ Kind(res) = kind /\ Owner(res) = owner)

\* The report of a delete call by its outcome; a 404 counts as deleted
\* before.
DeleteReport(o) ==
    IF o.status = 200 THEN "deleted"
    ELSE IF o.status = 404 THEN "already deleted" ELSE "failed"

\* load_ocids(): exit(1) without the file.
load_ocids ==
    /\ run.op = "cleanup"
    /\ run.pc = "load_ocids"
    /\ run' = IF ~run.file.exists THEN [run EXCEPT !.pc = "exit"]
              ELSE [run EXCEPT !.pc = "config", !.ocids = run.file.keys]
    /\ UNCHANGED <<heap, eng, calls, nupd, alone, last, big>>

\* main from oci.config.from_file to get_namespace: a missing config file
\* or a ServiceError of get_namespace ends the script with a traceback.
CleanupClients ==
    /\ run.op = "cleanup"
    /\ run.pc = "config"
    /\ \E ok \in BOOLEAN :
           run' = IF ok THEN EnterStage(run, 1) ELSE [run EXCEPT !.pc = "aborted"]
    /\ UNCHANGED <<heap, eng, calls, nupd, alone, last, big>>

\* delete_agent_tools up to the loop: list_tools.
ListTools ==
    /\ run.op = "cleanup"
    /\ run.pc = "list_tools"
    /\ \E o \in Outcomes :
           run' = IF o.status # 200
                  THEN [Issue(run, "list_tools", run.target, o, "failed to list")
                            EXCEPT !.pc = "list_agent_endpoints"]
                  ELSE IF Listed(run.cloud, "tool", run.target) = <<>>
                  THEN [Issue(run, "list_tools", run.target, o, "none found")
                            EXCEPT !.pc = "list_agent_endpoints"]
                  ELSE [Issue(run, "list_tools", run.target, o, "found")
                            EXCEPT !.pc = "delete_tool",
                                   !.items = Listed(run.cloud, "tool", run.target)]
    /\ UNCHANGED <<heap, eng, calls, nupd, alone, last, big>>

\* One turn of the loop of delete_agent_tools.
DeleteTool ==
    /\ run.op = "cleanup"
    /\ run.pc = "delete_tool"
    /\ \E o \in Outcomes :
           run' = [Issue(run, "delete_tool", Head(run.items), o, DeleteReport(o))
                       EXCEPT !.items = Tail(@),
                              !.pc = IF Tail(run.items) = <<>>
                                     THEN "list_agent_endpoints" ELSE @]
    /\ UNCHANGED <<heap, eng, calls, nupd, alone, last, big>>

\* delete_agent_endpoints up to the loop: list_agent_endpoints.
ListEndpoints ==
    /\ run.op = "cleanup"
    /\ run.pc = "list_agent_endpoints"
    /\ \E o \in Outcomes :
           run' = IF o.status # 200
                  THEN [Issue(run, "list_agent_endpoints", run.target, o, "failed to list")
                            EXCEPT !.pc = "delete_agent"]
                  ELSE IF Listed(run.cloud, "endpoint", run.target) = <<>>
                  THEN [Issue(run, "list_agent_endpoints", run.target, o, "none found")
                            EXCEPT !.pc = "delete_agent"]
                  ELSE [Issue(run, "list_agent_endpoints", run.target, o, "found")
                            EXCEPT !.pc = "delete_agent_endpoint",
                                   !.items = Listed(run.cloud, "endpoint", run.target)]
    /\ UNCHANGED <<heap, eng, calls, nupd, alone, last, big>>

\* One turn of the loop of delete_agent_endpoints.
DeleteEndpoint ==
    /\ run.op = "cleanup"
    /\ run.pc = "delete_agent_endpoint"
    /\ \E o \in Outcomes :
           run' = [Issue(run, "delete_agent_endpoint", Head(run.items), o, DeleteReport(o))
                       EXCEPT !.items = Tail(@),
                              !.pc = IF Tail(run.items) = <<>>
                                     THEN "delete_agent" ELSE @]
    /\ UNCHANGED <<heap, eng, calls, nupd, alone, last, big>>

\* The test of delete_agent that leads to the second delete call.
RetriesAlways(o) == o.status # 200 /\ o.status # 404

\* elif e.status == 409 and "AgentEndpoint" in e.message
Retries(o) == o.status = 409 /\ MentionsAgentEndpoint(o.message)

\* delete_agent: the first delete call.
DeleteAgent ==
    /\ run.op = "cleanup"
    /\ run.pc = "delete_agent"
    /\ \E o \in Outcomes :
           run' = IF Retries(o)
                  THEN [Issue(run, "delete_agent", run.target, o, "waiting")
                            EXCEPT !.pc = "delete_agent_again"]
                  ELSE EnterStage(Issue(run, "delete_agent", run.target, o, DeleteReport(o)),
                                  run.stage + 1)
    /\ UNCHANGED <<heap, eng, calls, nupd, alone, last, big>>

\* delete_agent: the second delete call, after time.sleep(5).
DeleteAgentAgain ==
    /\ run.op = "cleanup"
    /\ run.pc = "delete_agent_again"
    /\ \E o \in Outcomes :
           run' = EnterStage(Issue(run, "delete_agent", run.target, o, DeleteReport(o)),
                             run.stage + 1)
    /\ UNCHANGED <<heap, eng, calls, nupd, alone, last, big>>

\* delete_knowledge_base
DeleteKnowledgeBase ==
    /\ run.op = "cleanup"
    /\ run.pc = "delete_knowledge_base"
    /\ \E o \in Outcomes :
           run' = EnterStage(Issue(run, "delete_knowledge_base", run.target, o,
                                   DeleteReport(o)),
                             run.stage + 1)
    /\ UNCHANGED <<heap, eng, calls, nupd, alone, last, big>>

\* delete_bucket up to the loop: list_objects.  A ServiceError is caught by
\* the handler at the end of delete_bucket.
ListObjects ==
    /\ run.op = "cleanup"
    /\ run.pc = "list_objects"
    /\ \E o \in Outcomes :
           run' = IF o.status # 200
                  THEN EnterStage(Issue(run, "list_objects", run.target, o,
                                        IF o.status = 404 THEN "already deleted"
                                        ELSE "failed"),
                                  run.stage + 1)
                  ELSE IF Listed(run.cloud, "object", run.target) = <<>>
                  THEN [Issue(run, "list_objects", run.target, o, "none found")
                            EXCEPT !.pc = "delete_bucket"]
                  ELSE [Issue(run, "list_objects", run.target, o, "found")
                            EXCEPT !.pc = "delete_object",
                                   !.items = Listed(run.cloud, "object", run.target)]
    /\ UNCHANGED <<heap, eng, calls, nupd, alone, last, big>>

\* One turn of the loop of delete_bucket: every ServiceError is reported
\* as a failure.
DeleteObject ==
    /\ run.op = "cleanup"
    /\ run.pc = "delete_object"
    /\ \E o \in Outcomes :
           run' = [Issue(run, "delete_object", Head(run.items), o,
                         IF o.status = 200 THEN "deleted" ELSE "failed")
                       EXCEPT !.items = Tail(@),
                              !.pc = IF Tail(run.items) = <<>>
                                     THEN "delete_bucket" ELSE @]
    /\ UNCHANGED <<heap, eng, calls, nupd, alone, last, big>>

\* delete_bucket: the delete call of the bucket.
DeleteBucket ==
    /\ run.op = "cleanup"
    /\ run.pc = "delete_bucket"
    /\ \E o \in Outcomes :
           run' = EnterStage(Issue(run, "delete_bucket", run.target, o, DeleteReport(o)),
                             run.stage + 1)
    /\ UNCHANGED <<heap, eng, calls, nupd, alone, last, big>>

\* What exists when cleanup.py starts: what setup.py created, less any of
\* the tool, the first endpoint and the object (deleted by hand), with any
\* of the three other resources.
CleanupClouds ==
    {(Created \ gone) \cup more :
        gone \in SUBSET {"tool1", "endpoint1", "object"},
        more \in SUBSET {"object2", "endpoint1b", "tool2"}}

\* No file GENERATED_OCIDS.txt.
NoFile == [exists |-> FALSE, keys |-> {}]

\* GENERATED_OCIDS.txt with the lines of these keys.
FileOf(keys) == [exists |-> TRUE, keys |-> keys]

\* GENERATED_OCIDS.txt: absent, as setup.py wrote it, or with only some of
\* the four keys that main looks up.
CleanupFiles ==
    {NoFile, FileOf(DOMAIN OcidsFile)}
    \cup {FileOf(keys) : keys \in SUBSET StageKeys}

\* No call made yet.
NoCall == [call |-> "", target |-> "", status |-> 0, message |-> "", report |-> ""]

CleanupRuns ==
    {[op |-> "cleanup", pc |-> "load_ocids", file |-> file, ocids |-> {},
      cloud |-> cloud, stage |-> 0, target |-> "", items |-> <<>>, log |-> <<>>,
      made |-> {}, failed |-> FALSE, out |-> NoCall] :
        file \in CleanupFiles, cloud \in CleanupClouds}

CleanupInit == InitEngines /\ run \in CleanupRuns

NextCleanup ==
    \/ load_ocids
    \/ CleanupClients
    \/ ListTools
    \/ DeleteTool
    \/ ListEndpoints
    \/ DeleteEndpoint
    \/ DeleteAgent
    \/ DeleteAgentAgain
    \/ DeleteKnowledgeBase
    \/ ListObjects
    \/ DeleteObject
    \/ DeleteBucket

SpecCleanup == CleanupInit /\ [][NextCleanup]_vars

\* The agent that an entry of the log of calls concerns, "" for the calls
\* about the knowledge base and the bucket.
AgentOf(entry) ==
    CASE entry[1] \in {"list_tools", "list_agent_endpoints", "delete_agent"} -> entry[2]
      [] entry[1] \in {"delete_tool", "delete_agent_endpoint"} -> Owner(entry[2])
      [] OTHER -> ""

\* Tools 1, endpoints 2, the agent 3.
PartOf(entry) ==
    CASE entry[1] \in {"list_tools", "delete_tool"} -> 1
      [] entry[1] \in {"list_agent_endpoints", "delete_agent_endpoint"} -> 2
      [] entry[1] = "delete_agent" -> 3
      [] OTHER -> 0

IsBucketCall(entry) == entry[1] \in {"list_objects", "delete_object", "delete_bucket"}

\* The agents whose ids are in ocids.
AgentsIn(ocids) ==
    {OcidsFile[key] : key \in ocids \cap {"HOTEL_CONCIERGE_AGENT_ID",
                                          "HOTEL_CONCIERGE_AGENT_ADK_ID"}}

CleanupOrder(log, ocids) ==
    /\ \A i \in 1..Len(log) : \A j \in 1..Len(log) :
           /\ (i < j /\ AgentOf(log[i]) # "" /\ AgentOf(log[i]) = AgentOf(log[j]))
                  => PartOf(log[i]) <= PartOf(log[j])
           /\ (log[i][1] = "delete_knowledge_base" /\ AgentOf(log[j]) # "") => j < i
           /\ (IsBucketCall(log[i]) /\ ~IsBucketCall(log[j])) => j < i
           /\ (log[i][1] = "delete_object" /\ log[j][1] = "delete_bucket") => i < j
    /\ \A i \in 1..Len(log) :
           /\ log[i][1] = "delete_knowledge_base"
                  => \A agent \in AgentsIn(ocids) :
                         \E j \in 1..(i - 1) : log[j] = <<"delete_agent", agent>>
           /\ log[i][1] = "delete_bucket" => i = Len(log)
           /\ (IsBucketCall(log[i]) /\ "KNOWLEDGEBASE_ID" \in ocids)
                  => \E j \in 1..(i - 1) : log[j][1] = "delete_knowledge_base"

\* C22: in every run of main of cleanup.py, the calls about the tools of an
\* agent come before the calls about its endpoints, and these before the
\* delete call of the agent; the knowledge base is deleted only after the
\* delete call of every agent whose id is in the file and after every call
\* about an agent; the calls about the bucket come after all others, the
\* objects before the bucket, and the delete call of the bucket is the
\* last call of the run.
C22_CleanupOrder ==
    run.op = "cleanup" => CleanupOrder(run.log, run.ocids)

IsIn(entry, log) == \E i \in 1..Len(log) : log[i] = entry

C22_Witness ==
    /\ run.op = "cleanup"
    /\ run.pc = "done"
    /\ run.ocids = DOMAIN OcidsFile
    /\ IsIn(<<"delete_tool", "tool1">>, run.log)
    /\ IsIn(<<"delete_agent_endpoint", "endpoint1b">>, run.log)
    /\ IsIn(<<"delete_agent_endpoint", "endpoint2">>, run.log)
    /\ IsIn(<<"delete_knowledge_base", "kb">>, run.log)
    /\ IsIn(<<"delete_object", "object2">>, run.log)
    /\ run.log[Len(run.log)] = <<"delete_bucket", "bucket">>

\* How many entries of the log are the call entry.
RECURSIVE TimesIn(_, _)
TimesIn(log, entry) ==
    IF log = <<>> THEN 0
    ELSE (IF Head(log) = entry THEN 1 ELSE 0) + TimesIn(Tail(log), entry)

\* Once main has its clients it neither exits nor ends with a traceback,
\* and it can always take its next step until it is done.
NeverAborts ==
    (run.op = "cleanup" /\ run.stage >= 1)
        => /\ run.pc \notin {"exit", "aborted"}
           /\ run.pc # "done" => ENABLED NextCleanup

\* At the end of main every block whose key is in ocids has been entered,
\* in the order of the blocks.
ReachesEveryBlock ==
    (run.op = "cleanup" /\ run.pc = "done")
        => /\ \A i \in 1..Len(Stages) :
                  Stages[i].key \in run.ocids
                      => IsIn(<<Stages[i].pc, OcidsFile[Stages[i].key]>>, run.log)
           /\ \A a \in 1..Len(Stages) : \A b \in (a + 1)..Len(Stages) :
                  (Stages[a].key \in run.ocids /\ Stages[b].key \in run.ocids)
                      => \E i \in 1..Len(run.log) : \E j \in (i + 1)..Len(run.log) :
                             /\ run.log[i] = <<Stages[a].pc, OcidsFile[Stages[a].key]>>
                             /\ run.log[j] = <<Stages[b].pc, OcidsFile[Stages[b].key]>>

\* A delete_agent call for an agent that has had one already is made once,
\* and right after a 409 whose message contains "AgentEndpoint".
RetryOnlyOnce ==
    \A agent \in {"agent1", "agent2"} :
        (/\ run.op = "cleanup"
         /\ IsIn(<<"delete_agent", agent>>, run.log)
         /\ run'.log = Append(run.log, <<"delete_agent", agent>>))
            => /\ TimesIn(run.log, <<"delete_agent", agent>>) = 1
               /\ run.out.call = "delete_agent"
               /\ run.out.target = agent
               /\ run.out.status = 409
               /\ MentionsAgentEndpoint(run.out.message)

\* The calls whose 404 the helpers report as "already deleted".
ReportedAsDeleted ==
    {"delete_tool", "delete_agent_endpoint", "delete_agent",
     "delete_knowledge_base", "list_objects", "delete_bucket"}

\* C24 as stated: every ServiceError of a list or delete call is caught,
\* every 404 among them is reported as already deleted, main reaches every
\* block whose key is in the file, and delete_agent retries at most once,
\* only after a 409 with "AgentEndpoint" in its message.
C24_Every404AlreadyDeleted ==
    /\ [](NeverAborts /\ ReachesEveryBlock)
    /\ []((run.op = "cleanup" /\ run.out.status = 404)
              => run.out.report = "already deleted")
    /\ [][RetryOnlyOnce]_vars

\* C24: every ServiceError of a list or delete call of the delete_* helpers
\* is caught, so that main, once it has its clients, never aborts and
\* enters, in order, every block whose key is in the file (second agent,
\* knowledge base, bucket); a 404 of delete_tool, delete_agent_endpoint,
\* delete_agent, delete_knowledge_base, list_objects or delete_bucket is
\* reported as already deleted, a 404 of list_tools, list_agent_endpoints
\* or delete_object as a failure; and delete_agent retries at most once,
\* only after a 409 with "AgentEndpoint" in its message.
C24_CleanupNeverAborts ==
    /\ [](NeverAborts /\ ReachesEveryBlock)
    /\ []((run.op = "cleanup" /\ run.out.status = 404)
              => (run.out.report = "already deleted"
                      <=> run.out.call \in ReportedAsDeleted))
    /\ []((run.op = "cleanup" /\ run.out.status \notin {0, 200, 404})
              => run.out.report \in {"failed", "failed to list", "waiting"})
    /\ [][RetryOnlyOnce]_vars

C24_Witness ==
    /\ run.op = "cleanup"
    /\ run.pc = "done"
    /\ run.ocids = DOMAIN OcidsFile
    /\ TimesIn(run.log, <<"delete_agent", "agent1">>) = 2
    /\ IsIn(<<"list_agent_endpoints", "agent2">>, run.log)
    /\ ~IsIn(<<"delete_agent_endpoint", "endpoint2">>, run.log)
    /\ IsIn(<<"delete_knowledge_base", "kb">>, run.log)
    /\ run.out.call = "delete_bucket"
    /\ run.out.status = 404
    /\ run.out.report = "already deleted"

(* ---------------- setup.py ---------------- *)

\* The create calls of main after the upload, in the order of the code:
\* the call, the resource it creates and the key under which write_ocids
\* records the id it returns.
CreateSteps ==
    <<[call |-> "create_knowledge_base", res |-> "kb", key |-> "KNOWLEDGEBASE_ID"],
      [call |-> "create_data_source", res |-> "ds", key |-> "DATASOURCE_ID"],
      [call |-> "create_data_ingestion_job", res |-> "job",
       key |-> "DATA_INGESTION_JOB_ID"],
      [call |-> "create_agent", res |-> "agent1", key |-> "HOTEL_CONCIERGE_AGENT_ID"],
      [call |-> "create_tool", res |-> "tool1",
       key |-> "HOTEL_CONCIERGE_AGENT_RAG_TOOL_ID"],
      [call |-> "create_agent_endpoint", res |-> "endpoint1",
       key |-> "HOTEL_CONCIERGE_AGENT_ENDPOINT_ID"],
      [call |-> "create_agent", res |-> "agent2",
       key |-> "HOTEL_CONCIERGE_AGENT_ADK_ID"],
      [call |-> "create_agent_endpoint", res |-> "endpoint2",
       key |-> "HOTEL_CONCIERGE_AGENT_ADK_ENDPOINT_ID"]>>

\* The call returned: the resource exists, this run has made it, and main
\* holds its id in the variable that write_ocids records under key.
Made(r, res, keys) ==
    [r EXCEPT !.cloud = @ \cup {res}, !.made = @ \cup {res}, !.ocids = @ \cup keys]

\* main from oci.config.from_file to get_namespace: nothing is caught.
SetupClients ==
    /\ run.op = "setup"
    /\ run.pc = "config"
    /\ \E ok \in BOOLEAN :
           run' = [run EXCEPT !.pc = IF ok THEN "get_bucket" ELSE "aborted"]
    /\ UNCHANGED <<heap, eng, calls, nupd, alone, last, big>>

\* The test of create_bucket with every ServiceError taken for a missing
\* bucket.
BucketMissing_anyError(o) == o.status # 200

\* if e.status == 404
BucketMissing(o) == o.status = 404

\* if e.status == 409
ObjectExists(o) == o.status = 409

\* create_bucket: get_bucket; the service returns a bucket only if there
\* is one.
GetBucket ==
    /\ run.op = "setup"
    /\ run.pc = "get_bucket"
    /\ \E o \in Outcomes :
           /\ o.status = 200 => "bucket" \in run.cloud
           /\ run' = IF o.status = 200
                     THEN [Issue(run, "get_bucket", "bucket", o, "exists")
                               EXCEPT !.pc = "put_object",
                                      !.ocids = @ \cup {"BUCKET_NAME"}]
                     ELSE IF BucketMissing(o)
                     THEN [Issue(run, "get_bucket", "bucket", o, "creating")
                               EXCEPT !.pc = "create_bucket"]
                     ELSE [Issue(run, "get_bucket", "bucket", o, "raised")
                               EXCEPT !.pc = "aborted"]
    /\ UNCHANGED <<heap, eng, calls, nupd, alone, last, big>>

\* create_bucket: the create call in the handler; the service creates a
\* bucket only if there is none.
CreateBucket ==
    /\ run.op = "setup"
    /\ run.pc = "create_bucket"
    /\ \E o \in Outcomes :
           /\ o.status = 200 => "bucket" \notin run.cloud
           /\ run' = IF o.status = 200
                     THEN [Made(Issue(run, "create_bucket", "bucket", o, "created"),
                                "bucket", {"BUCKET_NAME"})
                               EXCEPT !.pc = "put_object"]
                     ELSE [Issue(run, "create_bucket", "bucket", o, "raised")
                               EXCEPT !.pc = "aborted"]
    /\ UNCHANGED <<heap, eng, calls, nupd, alone, last, big>>

\* upload_file: put_object without if_match.
PutObject ==
    /\ run.op = "setup"
    /\ run.pc = "put_object"
    /\ \E o \in Outcomes :
           run' = IF o.status = 200
                  THEN [Made(Issue(run, "put_object", "object", o, "uploaded"),
                             "object", {})
                            EXCEPT !.pc = "create", !.stage = 1]
                  ELSE IF ObjectExists(o)
                  THEN [Issue(run, "put_object", "object", o, "overwriting")
                            EXCEPT !.pc = "put_object_if_match"]
                  ELSE [Issue(run, "put_object", "object", o, "raised")
                            EXCEPT !.pc = "aborted"]
    /\ UNCHANGED <<heap, eng, calls, nupd, alone, last, big>>

\* upload_file: put_object with if_match="*" in the handler.
PutObjectIfMatch ==
    /\ run.op = "setup"
    /\ run.pc = "put_object_if_match"
    /\ \E o \in Outcomes :
           run' = IF o.status = 200
                  THEN [Made(Issue(run, "put_object_if_match", "object", o, "overwritten"),
                             "object", {})
                            EXCEPT !.pc = "create", !.stage = 1]
                  ELSE [Issue(run, "put_object_if_match", "object", o, "raised")
                            EXCEPT !.pc = "aborted"]
    /\ UNCHANGED <<heap, eng, calls, nupd, alone, last, big>>

\* create_knowledge_base .. create_agent_endpoint as main calls them: the
\* id of the response is kept, a ServiceError is caught nowhere.
Create ==
    /\ run.op = "setup"
    /\ run.pc = "create"
    /\ \E o \in Outcomes :
           run' = IF o.status = 200
                  THEN [Made(Issue(run, CreateSteps[run.stage].call,
                                   CreateSteps[run.stage].res, o, "created"),
                             CreateSteps[run.stage].res, {CreateSteps[run.stage].key})
                            EXCEPT !.stage = @ + 1,
                                   !.pc = IF run.stage = Len(CreateSteps)
                                          THEN "write_ocids" ELSE @]
                  ELSE [Issue(run, CreateSteps[run.stage].call,
                              CreateSteps[run.stage].res, o, "raised")
                            EXCEPT !.pc = "aborted"]
    /\ UNCHANGED <<heap, eng, calls, nupd, alone, last, big>>

\* write_ocids: one line for each of the nine values main holds.
write_ocids ==
    /\ run.op = "setup"
    /\ run.pc = "write_ocids"
    /\ run' = [run EXCEPT !.file = FileOf(run.ocids), !.pc = "done"]
    /\ UNCHANGED <<heap, eng, calls, nupd, alone, last, big>>

\* setup.py starts in a tenancy without the resources, or with the bucket,
\* or with the bucket and the object, and without GENERATED_OCIDS.txt.
SetupRuns ==
    {[op |-> "setup", pc |-> "config", file |-> NoFile, ocids |-> {},
      cloud |-> cloud, stage |-> 0, target |-> "", items |-> <<>>, log |-> <<>>,
      made |-> {}, failed |-> FALSE, out |-> NoCall] :
        cloud \in {{}, {"bucket"}, {"bucket", "object"}}}

SetupInit == InitEngines /\ run \in SetupRuns

NextSetup ==
    \/ SetupClients
    \/ GetBucket
    \/ CreateBucket
    \/ PutObject
    \/ PutObjectIfMatch
    \/ Create
    \/ write_ocids

SpecSetup == SetupInit /\ [][NextSetup]_vars

\* The call that a step of setup.py adds to the log, "" if none.
Issued(call) == run'.log = Append(run.log, <<call, run'.out.target>>)

CreateBucketOnlyAfter404 ==
    /\ Issued("create_bucket")
           => (run.out.call = "get_bucket" /\ run.out.status = 404)
    /\ (Issued("get_bucket") /\ run'.out.status = 200)
           => /\ run'.pc = "put_object"
              /\ "BUCKET_NAME" \in run'.ocids
              /\ run'.made = run.made
              /\ run'.cloud = run.cloud
    /\ (Issued("get_bucket") /\ run'.out.status \notin {200, 404})
           => run'.pc = "aborted"
    /\ (run.op = "setup" /\ run.pc = "aborted") => ~ENABLED NextSetup

PutObjectAgainOnlyAfter409 ==
    /\ Issued("put_object_if_match")
           => (run.out.call = "put_object" /\ run.out.status = 409)
    /\ (Issued("put_object") /\ run'.out.status = 409)
           => run'.pc = "put_object_if_match"
    /\ (Issued("put_object") /\ run'.out.status \notin {200, 409})
           => run'.pc = "aborted"

\* C25: create_bucket issues the create call only as the step after
\* get_bucket raised 404; when get_bucket returns, the name is returned
\* and nothing is created; any other ServiceError of get_bucket ends the
\* run without a create call.  upload_file issues put_object with
\* if_match="*" only as the step after put_object raised 409, does so after
\* every such 409, and any other ServiceError of put_object ends the run.
C25_CreateOnlyWhenMissing ==
    [][CreateBucketOnlyAfter404 /\ PutObjectAgainOnlyAfter409]_vars

C25_Witness ==
    /\ run.op = "setup"
    /\ run.pc = "create"
    /\ run.log = <<<<"get_bucket", "bucket">>, <<"create_bucket", "bucket">>,
                   <<"put_object", "object">>, <<"put_object_if_match", "object">>>>
    /\ run.made = {"bucket", "object"}

\* The calls of a run of setup.py that create something, in the order main
\* makes them.
SetupOrder ==
    <<"create_bucket", "put_object", "put_object_if_match">>
    \o [i \in 1..Len(CreateSteps) |-> CreateSteps[i].call]

\* The log of a run of setup.py without its get_bucket call.
CreateCalls(log) == SelectSeq(log, LAMBDA entry : entry[1] # "get_bucket")

\* The create calls made so far are, in this order, some of the bucket and
\* upload calls followed by the first create calls of CreateSteps.
CreatesInOrder ==
    \E n \in 0..Len(CreateSteps) :
        \E head \in {<<>>, <<<<"create_bucket", "bucket">>>>} :
            \E upload \in {<<>>, <<<<"put_object", "object">>>>,
                           <<<<"put_object", "object">>,
                             <<"put_object_if_match", "object">>>>} :
                /\ n > 0 => upload # <<>>
                /\ CreateCalls(run.log)
                       = head \o upload
                         \o [i \in 1..n |-> <<CreateSteps[i].call, CreateSteps[i].res>>]

\* GENERATED_OCIDS.txt is there only when every resource exists and the run
\* is over, with the nine keys.
WritesAfterAll ==
    run.file.exists
        => /\ run.pc = "done"
           /\ Created \subseteq run.cloud
           /\ run.file.keys = DOMAIN OcidsFile
           /\ ~(run.out.status \notin {0, 200})

\* The file names the resource: its id is the value of a line, or, for the
\* object, the bucket it is in.
Recorded(res, file) ==
    /\ file.exists
    /\ \E key \in file.keys : OcidsFile[key] = IF res = "object" THEN "bucket" ELSE res

\* C30: main of setup.py makes its create calls in the order bucket,
\* upload, knowledge base, data source, ingestion job, agent 1, tool,
\* endpoint, agent 2, endpoint, writes GENERATED_OCIDS.txt only after all
\* of them succeeded, and at the end of every run, one ended by a raising
\* create call included, every resource the run has created is named in
\* GENERATED_OCIDS.txt.
C30_SetupRecordsWhatItCreated ==
    run.op = "setup"
        => /\ CreatesInOrder
           /\ WritesAfterAll
           /\ run.pc \in {"done", "aborted"}
                  => \A res \in run.made : Recorded(res, run.file)

(* ---------------- setup.py, then cleanup.py ---------------- *)

\* cleanup.py is started after a run of setup.py has ended, in the same
\* directory and tenancy.
StartCleanup ==
    /\ run.op = "setup"
    /\ run.pc \in {"done", "aborted"}
    /\ run' = [run EXCEPT !.op = "cleanup", !.pc = "load_ocids", !.ocids = {},
                          !.stage = 0, !.target = "", !.log = <<>>,
                          !.failed = FALSE, !.out = NoCall]
    /\ UNCHANGED <<heap, eng, calls, nupd, alone, last, big>>

NextLab == NextSetup \/ StartCleanup \/ NextCleanup

SpecLab == SetupInit /\ [][NextLab]_vars

DeleteCalls ==
    {"delete_tool", "delete_agent_endpoint", "delete_agent",
     "delete_knowledge_base", "delete_object", "delete_bucket"}

\* C23: at the end of a run of cleanup.py that follows a run of setup.py
\* which wrote GENERATED_OCIDS.txt, no call of the cleanup run having
\* raised, a delete call has been issued for every resource that setup.py
\* created.
C23_CleanupDeletesAllCreated ==
    (/\ run.op = "cleanup"
     /\ run.pc = "done"
     /\ run.file = FileOf(DOMAIN OcidsFile)
     /\ ~run.failed)
        => \A res \in run.made :
               \E call \in DeleteCalls : IsIn(<<call, res>>, run.log)

(* ---------------- setup_user_api_key.py, the script ---------------- *)

\* The step was taken: the log keeps what there was at that moment, the
\* directory ~/.oci, its mode, and the file ~/.oci/config.
Took(r, step) ==
    [r EXCEPT !.log = Append(@, [step |-> step, dir |-> r.dir, mode |-> r.mode,
                                 config |-> "config" \in r.files])]

\* create_directory: os.makedirs and apply_user_only_access_permissions
\* (S_IRUSR | S_IWUSR | S_IXUSR for a directory).
create_directory(r) == [r EXCEPT !.dir = TRUE, !.mode = "0700", !.files = {}]

\* Lines 639-643: the directory is removed and made again, if it exists.
ResetDirectory ==
    /\ run.op = "key"
    /\ run.pc = "reset"
    /\ run' = IF run.dir
              THEN [Took(create_directory([run EXCEPT !.dir = FALSE, !.files = {}]),
                         "create_directory")
                        EXCEPT !.pc = "generate_key"]
              ELSE [run EXCEPT !.pc = "generate_key"]
    /\ UNCHANGED <<heap, eng, calls, nupd, alone, last, big>>

\* Lines 645-652: the environment is read and the key pair generated.
GenerateKey ==
    /\ run.op = "key"
    /\ run.pc = "generate_key"
    /\ run' = [Took(run, "generate_key") EXCEPT !.pc = "write_public_key"]
    /\ UNCHANGED <<heap, eng, calls, nupd, alone, last, big>>

\* open(filename, "wb") in a directory: FileNotFoundError without the
\* directory.
WriteFile(r, step, name, next) ==
    IF r.dir
    THEN [Took(r, step) EXCEPT !.files = @ \cup {name}, !.pc = next]
    ELSE [Took(r, step) EXCEPT !.pc = "aborted"]

\* write_public_key_to_file
WritePublicKey ==
    /\ run.op = "key"
    /\ run.pc = "write_public_key"
    /\ run' = WriteFile(run, "write_public_key", "oci_api_key_public.pem",
                        "write_private_key")
    /\ UNCHANGED <<heap, eng, calls, nupd, alone, last, big>>

\* write_private_key_to_file
WritePrivateKey ==
    /\ run.op = "key"
    /\ run.pc = "write_private_key"
    /\ run' = WriteFile(run, "write_private_key", "oci_api_key.pem", "fingerprint")
    /\ UNCHANGED <<heap, eng, calls, nupd, alone, last, big>>

\* Line 659: public_key_to_fingerprint.
Fingerprint ==
    /\ run.op = "key"
    /\ run.pc = "fingerprint"
    /\ run' = [Took(run, "fingerprint") EXCEPT !.pc = "validate_config"]
    /\ UNCHANGED <<heap, eng, calls, nupd, alone, last, big>>

\* Lines 662-670: oci.config.validate_config raises when OCI_CS_USER_OCID
\* or OCI_TENANCY was not set.
ValidateConfig ==
    /\ run.op = "key"
    /\ run.pc = "validate_config"
    /\ run' = [run EXCEPT !.pc = IF run.user /\ run.tenancy THEN "upload" ELSE "aborted"]
    /\ UNCHANGED <<heap, eng, calls, nupd, alone, last, big>>

\* upload_public_key_to_user: oci.config.from_file() reads ~/.oci/config;
\* without that file the SDK finds a configuration elsewhere or raises.
\* Then the public key file is read and upload_api_key called, which
\* returns or raises.
UploadPublicKey ==
    /\ run.op = "key"
    /\ run.pc = "upload"
    /\ \E elsewhere \in BOOLEAN : \E o \in Outcomes :
           run' = IF "config" \notin run.files /\ ~elsewhere
                  THEN [Took(run, "from_file") EXCEPT !.pc = "aborted"]
                  ELSE IF o.status # 200
                  THEN [Took(Took(run, "from_file"), "upload_api_key")
                            EXCEPT !.pc = "aborted"]
                  ELSE [Took(Took(run, "from_file"), "upload_api_key")
                            EXCEPT !.pc = "write_config", !.uploaded = TRUE]
    /\ UNCHANGED <<heap, eng, calls, nupd, alone, last, big>>

\* write_config: the profile is appended to ~/.oci/config.
WriteConfig ==
    /\ run.op = "key"
    /\ run.pc = "write_config"
    /\ run' = WriteFile(run, "write_config", "config", "done")
    /\ UNCHANGED <<heap, eng, calls, nupd, alone, last, big>>

\* A run of the script at its start.
KeyRun(dir, mode, files, user, tenancy) ==
    [op |-> "key", pc |-> "reset", dir |-> dir, mode |-> mode, files |-> files,
     user |-> user, tenancy |-> tenancy, uploaded |-> FALSE, log |-> <<>>]

\* The script starts without ~/.oci, or with it in either mode and with any
\* of a configuration, old key files and another file in it, and with or
\* without each of the two environment variables.
KeyRuns ==
    {KeyRun(FALSE, "none", {}, user, tenancy) : user \in BOOLEAN, tenancy \in BOOLEAN}
    \cup {KeyRun(TRUE, fs[1], fs[2], env[1], env[2]) :
              fs \in {"0700", "umask"}
                         \X SUBSET {"config", "oci_api_key_public.pem",
                                    "oci_api_key.pem", "sessions"},
              env \in BOOLEAN \X BOOLEAN}

KeyInit == InitEngines /\ run \in KeyRuns

NextKey ==
    \/ ResetDirectory
    \/ GenerateKey
    \/ WritePublicKey
    \/ WritePrivateKey
    \/ Fingerprint
    \/ ValidateConfig
    \/ UploadPublicKey
    \/ WriteConfig

SpecKey == KeyInit /\ [][NextKey]_vars

\* C28: at every moment at which the script writes the public or the
\* private key file, whether or not ~/.oci existed at the start, the
\* directory ~/.oci exists and has user-only permissions.
C28_KeyDirectoryExists ==
    run.op = "key"
        => \A i \in 1..Len(run.log) :
               run.log[i].step \in {"write_public_key", "write_private_key"}
                   => (run.log[i].dir /\ run.log[i].mode = "0700")

\* The steps of the log are these, in this order, each at most once and
\* none after a missing one.
StepOrder ==
    <<"create_directory", "generate_key", "write_public_key", "write_private_key",
      "fingerprint", "from_file", "upload_api_key", "write_config">>

InStepOrder(log) ==
    \A i \in 1..Len(log) : \A j \in (i + 1)..Len(log) :
        \E a \in 1..Len(StepOrder) : \E b \in (a + 1)..Len(StepOrder) :
            log[i].step = StepOrder[a] /\ log[j].step = StepOrder[b]

\* C29: the steps of the script run in the order generate key pair, write
\* key files, compute fingerprint, upload the public key, write the config
\* profile; and whenever upload_public_key_to_user loads ~/.oci/config,
\* that file exists.
C29_ProfileOrdering ==
    run.op = "key"
        => /\ InStepOrder(run.log)
           /\ \A i \in 1..Len(run.log) :
                  run.log[i].step = "from_file" => run.log[i].config

(* ---------------- two callers ---------------- *)

\* Two threads call update() and digest(), one statement of the methods at
\* a time: a step is one source line that reads or writes a field of an
\* engine, together with the lines after it that touch only local
\* variables.  _transform is two steps, the line that reads A, B, C, D (with
\* the 64 calls of XX and the sums, which are local) and the line that
\* writes them.  run.th[t] is the frame of thread t: the calls it has still
\* to make, the line it is at, and the local variables of update(), of
\* digest() and of _transform.

NoThread ==
    [self |-> "e", prog |-> <<>>, rets |-> <<>>, pc |-> "done", phase |-> "idle",
     at0 |-> "idle", at1 |-> "idle", inBuf |-> <<>>, nested |-> FALSE, index |-> 0,
     partLen |-> 0, i |-> 0,
     A |-> long_zero, B |-> long_zero, C |-> long_zero, D |-> long_zero,
     input |-> <<>>, count |-> <<>>, digest |-> <<>>,
     inp |-> <<>>, new |-> <<>>, tret |-> ""]

\* The thread goes to the first line of its next call, or is done; the
\* local variables of the call that returned are gone.
Enter(th) ==
    IF th.prog = <<>>
    THEN [NoThread EXCEPT !.self = th.self, !.rets = th.rets, !.at0 = th.at0,
                          !.at1 = th.at1]
    ELSE IF Head(th.prog).op = "update"
    THEN [NoThread EXCEPT !.self = th.self, !.rets = th.rets, !.at0 = th.at0,
                          !.at1 = th.at1, !.prog = Tail(th.prog), !.pc = "305",
                          !.inBuf = Head(th.prog).arg]
    ELSE [NoThread EXCEPT !.self = th.self, !.rets = th.rets, !.at0 = th.at0,
                          !.at1 = th.at1, !.prog = Tail(th.prog), !.pc = "335"]

\* update() returns: to line 353 of digest(), or to the caller, who notes
\* where the other thread is.
UpdateReturn(th, other) ==
    IF th.nested THEN [th EXCEPT !.pc = "353", !.nested = FALSE]
    ELSE Enter([th EXCEPT !.at1 = other.phase])

\* The while loop of update() at position i: line 320 with its argument,
\* or the else clause at line 323.
LoopFrom(th, i) ==
    IF i + 63 < Len(th.inBuf)
    THEN [th EXCEPT !.i = i, !.pc = "199", !.tret = "321",
                    !.inp = bytelist2long(Slice(th.inBuf, i, i + 64))]
    ELSE [th EXCEPT !.i = i, !.pc = "323"]

\* The variables of the model after a step of thread t: the world W with
\* the garbage dropped, and the frame th.
ThreadDoes(t, W, th) ==
    /\ heap' = Normalise(W).heap
    /\ eng' = Normalise(W).eng
    /\ run' = [run EXCEPT !.th[t] = th]
    /\ UNCHANGED <<calls, nupd, alone, last, big>>

At(t, pcs) == run.op = "threads" /\ run.th[t].pc \in pcs

\* Line 305.
UpdIndex(t) ==
    /\ At(t, {"305"})
    /\ ThreadDoes(t, World,
           [run.th[t] EXCEPT
               !.index = IndexOf(heap[eng[run.th[t].self].count]),
               !.at0 = IF run.th[t].nested THEN @ ELSE run.th[3 - t].phase,
               !.pc = "308"])

\* (leninBuf << 3)
BitsOf(inBuf) == PyShl(FromNat(Len(inBuf)), 3)

\* Lines 308, 309-310 and 311, one at a time, each on the list that
\* self.count is then; after line 311, partLen and the test of line 315.
UpdCount(t) ==
    \/ /\ At(t, {"308"})
       /\ ThreadDoes(t,
              [World EXCEPT !.heap[eng[run.th[t].self].count][1] =
                                PyAdd(@, BitsOf(run.th[t].inBuf))],
              [run.th[t] EXCEPT !.pc = "309"])
    \/ /\ At(t, {"309"})
       /\ ThreadDoes(t,
              IF PyLess(heap[eng[run.th[t].self].count][1], BitsOf(run.th[t].inBuf))
              THEN [World EXCEPT !.heap[eng[run.th[t].self].count][2] =
                                     PyAdd(@, <<1, 0>>)]
              ELSE World,
              [run.th[t] EXCEPT !.pc = "311"])
    \/ /\ At(t, {"311"})
       /\ ThreadDoes(t,
              [World EXCEPT !.heap[eng[run.th[t].self].count][2] =
                                PyAdd(@, PyShr(FromNat(Len(run.th[t].inBuf)), 29))],
              [run.th[t] EXCEPT
                  !.partLen = 64 - run.th[t].index,
                  !.pc = IF FillsBlock(Len(run.th[t].inBuf), 64 - run.th[t].index)
                         THEN "316" ELSE "326"])

\* Line 316: the list is changed in place.
UpdFill(t) ==
    /\ At(t, {"316"})
    /\ ThreadDoes(t,
           [World EXCEPT !.heap[eng[run.th[t].self].input] =
                             Take(@, run.th[t].index)
                             \o Take(run.th[t].inBuf, run.th[t].partLen)],
           [run.th[t] EXCEPT !.pc = "317"])

\* Line 317: the argument is read from self.input, _transform is entered.
UpdCompress(t) ==
    /\ At(t, {"317"})
    /\ ThreadDoes(t, World,
           [run.th[t] EXCEPT
               !.inp = bytelist2long(heap[eng[run.th[t].self].input]),
               !.tret = "318", !.pc = "199"])

\* Line 323: self.input is bound to a new list; update() returns.
UpdRest(t) ==
    /\ At(t, {"323"})
    /\ ThreadDoes(t,
           SetInput(World, run.th[t].self,
                    Slice(run.th[t].inBuf, run.th[t].i, Len(run.th[t].inBuf))),
           UpdateReturn(run.th[t], run.th[3 - t]))

\* Line 326: self.input is bound to a new list; update() returns.
UpdAppend(t) ==
    /\ At(t, {"326"})
    /\ ThreadDoes(t,
           SetInput(World, run.th[t].self,
                    heap[eng[run.th[t].self].input] \o run.th[t].inBuf),
           UpdateReturn(run.th[t], run.th[3 - t]))

\* _transform from line 199 to line 280: A, B, C, D are read and the new
\* values computed; inp[15] of a shorter list raises IndexError.
TransformLoad(t) ==
    /\ At(t, {"199"})
    /\ ThreadDoes(t, World,
           IF Len(run.th[t].inp) < 16
           THEN [run.th[t] EXCEPT !.pc = "raised"]
           ELSE [run.th[t] EXCEPT
                    !.new = transform(eng[run.th[t].self], run.th[t].inp),
                    !.pc = "282"])

\* Line 282, and the return: to line 318 or 321 of update() with the loop
\* test that follows, or to line 358 of digest().
TransformWrite(t) ==
    /\ At(t, {"282"})
    /\ ThreadDoes(t,
           [World EXCEPT !.eng[run.th[t].self].A = run.th[t].new.A,
                         !.eng[run.th[t].self].B = run.th[t].new.B,
                         !.eng[run.th[t].self].C = run.th[t].new.C,
                         !.eng[run.th[t].self].D = run.th[t].new.D],
           IF run.th[t].tret = "318" THEN LoopFrom(run.th[t], run.th[t].partLen)
           ELSE IF run.th[t].tret = "321" THEN LoopFrom(run.th[t], run.th[t].i + 64)
           ELSE [run.th[t] EXCEPT !.pc = "358"])

\* Lines 335-340, one at a time.  The two lists are new lists that only
\* the thread refers to.
DigSave(t) ==
    /\ At(t, {"335", "336", "337", "338", "339", "340"})
    /\ ThreadDoes(t, World,
           CASE run.th[t].pc = "335" ->
                    [run.th[t] EXCEPT !.A = eng[run.th[t].self].A, !.pc = "336",
                                      !.phase = "saving",
                                      !.at0 = run.th[3 - t].phase]
             [] run.th[t].pc = "336" ->
                    [run.th[t] EXCEPT !.B = eng[run.th[t].self].B, !.pc = "337"]
             [] run.th[t].pc = "337" ->
                    [run.th[t] EXCEPT !.C = eng[run.th[t].self].C, !.pc = "338"]
             [] run.th[t].pc = "338" ->
                    [run.th[t] EXCEPT !.D = eng[run.th[t].self].D, !.pc = "339"]
             [] run.th[t].pc = "339" ->
                    [run.th[t] EXCEPT !.input = heap[eng[run.th[t].self].input],
                                      !.pc = "340"]
             [] run.th[t].pc = "340" ->
                    [run.th[t] EXCEPT !.count = heap[eng[run.th[t].self].count],
                                      !.pc = "342", !.phase = "inside"])

\* Lines 342-350: the index is read, update() is entered with the padding.
DigPad(t) ==
    /\ At(t, {"342"})
    /\ ThreadDoes(t, World,
           [run.th[t] EXCEPT
               !.inBuf = Take(padding,
                              PadLenOf(IndexOf(heap[eng[run.th[t].self].count]))),
               !.nested = TRUE, !.pc = "305"])

\* Lines 353-355: self.input is read, _transform is entered.
DigBits(t) ==
    /\ At(t, {"353"})
    /\ ThreadDoes(t, World,
           [run.th[t] EXCEPT
               !.inp = bytelist2long(Take(heap[eng[run.th[t].self].input], 56))
                       \o run.th[t].count,
               !.tret = "358", !.pc = "199"])

\* Line 358.
DigPack(t) ==
    /\ At(t, {"358"})
    /\ ThreadDoes(t, World,
           [run.th[t] EXCEPT
               !.digest = PackI(eng[run.th[t].self].A) \o PackI(eng[run.th[t].self].B)
                          \o PackI(eng[run.th[t].self].C)
                          \o PackI(eng[run.th[t].self].D),
               !.pc = "360"])

\* The assignment of one of the lines 360-365, without "self.count = count".
RestoreLine_keepCount(W, self, th) ==
    CASE th.pc = "360" -> [W EXCEPT !.eng[self].A = th.A]
      [] th.pc = "361" -> [W EXCEPT !.eng[self].B = th.B]
      [] th.pc = "362" -> [W EXCEPT !.eng[self].C = th.C]
      [] th.pc = "363" -> [W EXCEPT !.eng[self].D = th.D]
      [] th.pc = "364" -> SetInput(W, self, th.input)
      [] th.pc = "365" -> W

\* The assignment of one of the lines 360-365; the engine is bound to the
\* lists of the thread.
RestoreLine(W, self, th) ==
    CASE th.pc = "360" -> [W EXCEPT !.eng[self].A = th.A]
      [] th.pc = "361" -> [W EXCEPT !.eng[self].B = th.B]
      [] th.pc = "362" -> [W EXCEPT !.eng[self].C = th.C]
      [] th.pc = "363" -> [W EXCEPT !.eng[self].D = th.D]
      [] th.pc = "364" -> SetInput(W, self, th.input)
      [] th.pc = "365" -> [NewList(W, th.count) EXCEPT !.eng[self].count = NewAddr(W)]

\* Lines 360-367, one at a time; digest() returns after the last.
DigRestore(t) ==
    /\ At(t, {"360", "361", "362", "363", "364", "365"})
    /\ ThreadDoes(t, RestoreLine(World, run.th[t].self, run.th[t]),
           CASE run.th[t].pc = "360" -> [run.th[t] EXCEPT !.pc = "361",
                                                          !.phase = "restoring"]
             [] run.th[t].pc = "361" -> [run.th[t] EXCEPT !.pc = "362"]
             [] run.th[t].pc = "362" -> [run.th[t] EXCEPT !.pc = "363"]
             [] run.th[t].pc = "363" -> [run.th[t] EXCEPT !.pc = "364"]
             [] run.th[t].pc = "364" -> [run.th[t] EXCEPT !.pc = "365"]
             [] run.th[t].pc = "365" ->
                    Enter([run.th[t] EXCEPT !.rets = Append(@, run.th[t].digest),
                                            !.phase = "idle",
                                            !.at1 = run.th[3 - t].phase]))

\* A call of a program.
UpdateOf(inBuf) == [op |-> "update", arg |-> inBuf]

DigestCall == [op |-> "digest", arg |-> <<>>]

\* An engine "e" that has been given old, and its copy "c".
EngineAndCopy(old) ==
    Normalise(copy(update(MD5Type([heap |-> <<>>, eng |-> <<>>, log |-> <<>>], "e"),
                          "e", old),
                   "e", "c"))

\* What the calls of prog return, and the engine after them, when they are
\* made one after the other on engine self in world W.
RECURSIVE RunAlone(_, _, _, _)
RunAlone(W, self, prog, rets) ==
    IF prog = <<>>
    THEN [state |-> EngineState(W.heap, W.eng, self), rets |-> rets]
    ELSE IF Head(prog).op = "update"
    THEN RunAlone(update(W, self, Head(prog).arg), self, Tail(prog), rets)
    ELSE RunAlone(digest(W, self).world, self, Tail(prog),
                  Append(rets, digest(W, self).ret))

\* The two callers: each on an engine of its own, the engine "e" and its
\* copy "c", or both on "e"; what they call; the engines at the start;
\* what each caller gets when its calls are made alone, and what the two
\* get when all calls of one are made before those of the other.
ThreadRuns ==
    {[op |-> "threads", start |-> EngineAndCopy(s[1]), progs |-> <<s[3], s[5]>>,
      alone |-> <<RunAlone(EngineAndCopy(s[1]), s[2], s[3], <<>>),
                  RunAlone(EngineAndCopy(s[1]), s[4], s[5], <<>>)>>,
      orders |-> <<RunAlone(EngineAndCopy(s[1]), s[2], s[3] \o s[5], <<>>),
                   RunAlone(EngineAndCopy(s[1]), s[2], s[5] \o s[3], <<>>)>>,
      th |-> <<Enter([NoThread EXCEPT !.self = s[2], !.prog = s[3]]),
               Enter([NoThread EXCEPT !.self = s[4], !.prog = s[5]])>>] :
        s \in {<<<<97, 98, 99>>, "e", <<UpdateOf(Msg(61)), DigestCall>>,
                 "c", <<UpdateOf(Msg(125))>>>>,
               <<<<97, 98, 99>>, "e", <<DigestCall>>, "c", <<DigestCall>>>>,
               <<Msg(60), "e", <<DigestCall>>, "c", <<UpdateOf(<<97, 98, 99>>)>>>>,
               <<<<97, 98, 99>>, "e", <<DigestCall>>,
                 "e", <<UpdateOf(<<97, 98, 99>>)>>>>,
               <<<<97, 98, 99>>, "e", <<DigestCall>>, "e", <<UpdateOf(Msg(61))>>>>,
               <<<<97, 98, 99>>, "e", <<DigestCall>>, "e", <<UpdateOf(<<>>)>>>>}}

ThreadsInit ==
    /\ run \in ThreadRuns
    /\ heap = run.start.heap
    /\ eng = run.start.eng
    /\ alone = [n \in {"e"} |-> run.start]
    /\ calls = [n \in {"e"} |-> <<>>]
    /\ nupd = [n \in {"e"} |-> 0]
    /\ last = Call("copy", "e", None, <<>>, <<>>, <<>>)
    /\ big = [w \in {"whole", "parts"} |-> SizedNew]

NextThreads ==
    \E t \in {1, 2} :
        \/ UpdIndex(t)
        \/ UpdCount(t)
        \/ UpdFill(t)
        \/ UpdCompress(t)
        \/ UpdRest(t)
        \/ UpdAppend(t)
        \/ TransformLoad(t)
        \/ TransformWrite(t)
        \/ DigSave(t)
        \/ DigPad(t)
        \/ DigBits(t)
        \/ DigPack(t)
        \/ DigRestore(t)

SpecThreads == ThreadsInit /\ [][NextThreads]_vars

\* C21: when the two callers have each an engine of their own, one the
\* copy() of the other, then in every interleaving of the lines of their
\* update() and digest() calls, those within digest()'s save, padding and
\* restore included, no call raises, and once a caller has made its calls
\* its digests and the state of its engine are those of the same calls
\* made alone, whatever the other caller does then.
C21_OwnEnginesIndependent ==
    (run.op = "threads" /\ run.th[1].self # run.th[2].self)
        => \A t \in {1, 2} :
               /\ run.th[t].pc # "raised"
               /\ run.th[t].pc = "done"
                      => /\ run.th[t].rets = run.alone[t].rets
                         /\ EngineState(heap, eng, run.th[t].self) = run.alone[t].state

C21_Witness ==
    /\ run.op = "threads"
    /\ run.th[1].self # run.th[2].self
    /\ run.th[1].pc = "done"
    /\ run.th[2].pc = "done"
    /\ run.progs[1] = <<UpdateOf(Msg(61)), DigestCall>>
    /\ Len(run.th[1].rets) = 1
    /\ run.th[2].at0 = "saving"
    /\ run.th[2].at1 = "restoring"

\* Caller 1 has called digest() and caller 2 update(x) on the same engine,
\* both have returned, and all of update(x) ran after the six saves of
\* digest() and before the first of its six restoring assignments.
UpdateInsideDigest ==
    /\ run.op = "threads"
    /\ run.th[1].self = run.th[2].self
    /\ run.progs[1] = <<DigestCall>>
    /\ Len(run.progs[2]) = 1
    /\ run.progs[2][1].op = "update"
    /\ run.th[1].pc = "done"
    /\ run.th[2].pc = "done"
    /\ run.th[2].at0 = "inside"
    /\ run.th[2].at1 = "inside"

\* C27: when update(x) of one caller runs between the saves and the
\* restoring assignments of another caller's digest() on the same engine,
\* the engine ends in the state it had before digest(), and, x having
\* bytes, in the state of neither order of the two calls made one after
\* the other.
C27_SharedEngineLosesUpdate ==
    UpdateInsideDigest
        => /\ EngineState(heap, eng, "e")
                  = EngineState(run.start.heap, run.start.eng, "e")
           /\ run.progs[2][1].arg # <<>>
                  => /\ EngineState(heap, eng, "e") # run.orders[1].state
                     /\ EngineState(heap, eng, "e") # run.orders[2].state

\* The digest returned is that of neither the old nor the new message.
C27_Witness ==
    /\ UpdateInsideDigest
    /\ run.progs[2][1].arg = <<97, 98, 99>>
    /\ run.th[1].rets # run.orders[1].rets
    /\ run.th[1].rets # run.orders[2].rets

====
